---- MODULE Spec2Model ----
(***************************************************************************)
(* Model of rds-iam-proxy's connection engine: one proxy instance          *)
(* (Proxy.Run, its accept loop, the per-connection workers started by it,  *)
(* force-close on shutdown timeout) together with its BackendPool          *)
(* (Start, fillOne, Borrow, Close).                                        *)
(*                                                                         *)
(* Goroutines are interleaved at the granularity of their synchronisation  *)
(* points: channel operations, lock-protected sections, socket closes and  *)
(* blocking I/O.  External parties (the client peer, the backend, timers,  *)
(* the supervisor cancelling the context) are nondeterministic.            *)
(***************************************************************************)
EXTENDS Integers, Sequences, FiniteSets, TLC

\* ---------------------------------------------------------------- bounds
MaxClients == 2       \* client connections that may arrive at the listener
MaxSessions == 2      \* backend sessions the factory may create (pool harness)
MaxProxySessions == 1 \* backend sessions the factory may create (proxy run)
MaxPoolSize == 2      \* largest size given to NewBackendPool (pool harness)
MaxProxyPoolSize == 1 \* largest size given to NewBackendPool (proxy run)
MaxOutages == 1       \* refill factory calls that fail before the backend is up
MaxDiscards == 1      \* stale sessions one Borrow call discards (repeated Borrow)
MaxGetters == 2       \* goroutines calling Cache.Get
MaxGets == 2          \* Get calls each of them makes
MaxInstances == 2      \* profiles selected to run together
MaxChunks == 2         \* pieces of text in an error message
MaxBytes == 2          \* chunks of data a remote end sends on a connection
MaxNow == 4           \* clock ticks (of 5 minutes) the token cache lives through

\* ------------------------------------------------------ program constants
DefaultMaxConns == 200   \* New: maxConns <= 0 falls back to 200
MinPoolSize == 1         \* NewBackendPool: size < 1 becomes 1
MaxLife == 1             \* p.maxLife, in clock ticks
ProxyUser == "local_proxy_e2e"
ProxyPassword == "local_proxy_pass"
TokenTTL == 3            \* token.New(.., 15*time.Minute), in 5-minute ticks
MainRefreshBefore == 1   \* token.New(5*time.Minute, ..) in main
TestRefreshBefore == 4   \* token.New(20*time.Minute, ..) in the cache tests

Clients == 1..MaxClients
Sessions == 1..(IF MaxSessions > MaxProxySessions THEN MaxSessions
                                                   ELSE MaxProxySessions)
NoSession == 0

\* credentials a client may present in the server-side handshake
Credentials ==
  { <<ProxyUser, ProxyPassword>>, <<ProxyUser, "wrong_pass">>,
    <<"db_user", ProxyPassword>> }

\* max-conns arguments given to New: 0 (fall back to the default) and 1
MaxConnsArgs == {0, 1}

VARIABLES
  \* --- environment
  ctxDone,      \* the context passed to Run (and to Borrow) is cancelled
  outages,      \* factory calls of refill tasks the backend will still fail
  \* --- token.Cache
  tnow,          \* time.Now(), in ticks
  refreshBefore, \* c.refreshBefore
  entries,       \* c.entries: cache key -> CachedToken (or NoToken)
  awsProviders,  \* c.awsProviders: the provider keys present
  loaded,        \* per provider key: loadDefaultAWSConfig calls that returned
  builds,        \* per cache key: buildRDSAuthToken calls that returned
  gt,            \* per goroutine calling Get: position and locals
  \* --- Proxy.pipe on a pair of connections
  pipePc,        \* position of the goroutine executing pipe
  copyPc,        \* per direction: position of the io.Copy goroutine
  copyErr,       \* per direction: the error io.Copy returned
  sockClosed,    \* per connection: Close has been called on it
  peerClosed,    \* per connection: the remote end has closed
  resCh,         \* resCh: the results sent and not yet received
  got,           \* the results pipe has received, in order
  pipeRet,       \* the error pipe returns
  copyN,         \* per direction: the bytes io.Copy has written
  pipeUp,        \* the first count pipe returns
  pipeDown,      \* the second count pipe returns
  \* --- main (the supervisor of the proxy instances)
  mainPc,        \* position of the main goroutine
  exitCode,      \* the code the process exited with
  selected,      \* len(selected): the profiles to run
  inst,          \* per instance: position of its goroutine, Run's result
  errCh,         \* len(errCh)
  mainWg,        \* main's wg counter
  waiterPc,      \* the goroutine that closes done after wg.Wait
  sigPc,         \* the goroutine of signalContext
  \* --- main up to the launch of one profile (flags, config, validation)
  cfgPc,         \* position of main
  cfgProf,       \* the profile: as written in the file, then as loaded
  cfgFlag,       \* the --max-conns flag
  cfgAllow,      \* the --allow-dev-empty-password flag
  cfgErr,        \* the error main stopped on
  cfgSem,        \* cap(p.sem) of the launched instance
  \* --- isConnCloseErr applied to an error
  errIn,         \* the error
  errOut,        \* the result
  \* --- Proxy
  runPc,        \* position of the goroutine executing Run
  runErr,       \* Run's return value: "none" (not returned), "nil", "err"
  cur,          \* the connection the accept loop holds (0 = none)
  lnClosed,     \* listener closed by the ctx watcher goroutine
  maxConns,     \* p.maxConns = cap(p.sem)
  sem,          \* len(p.sem)
  nextConnID,   \* p.nextConnID
  wg,           \* p.wg counter
  active,       \* p.active: set of [id, client, backend] entries
  pairs,        \* forceCloseActive: snapshot entries not yet closed
  snap,         \* forceCloseActive: the snapshot as it was taken
  forced,       \* forceCloseActive: closed counter
  timedOut,     \* the shutdownTimeout timer of Run has fired
  cl,           \* per client connection: socket + worker goroutine state
  \* --- BackendPool
  started,      \* Start has been called
  poolCap,      \* cap(p.conns)
  conns,        \* p.conns: FIFO of pooled sessions
  closed,       \* p.closed (set together with refillCancel)
  fillStart,    \* fillOne goroutines spawned, closed-check not yet made
  fillCalling,  \* fillOne goroutines inside the factory call
  fillHolding,  \* sessions created by fillOne, enqueue not yet attempted
  nextSess,     \* next session the factory creates
  sessLimit,    \* sessions the factory can create in this run
  sess          \* per backend session: creation time and close bookkeeping

\* what surrounds one proxy instance and its pool, ctx apart
tokenVars == <<tnow, refreshBefore, entries, awsProviders, loaded, builds, gt>>
pipeVars == <<pipePc, copyPc, copyErr, sockClosed, peerClosed, resCh, got,
              pipeRet, copyN, pipeUp, pipeDown>>
supVars == <<mainPc, exitCode, selected, inst, errCh, mainWg, waiterPc, sigPc>>
cfgVars == <<cfgPc, cfgProf, cfgFlag, cfgAllow, cfgErr, cfgSem>>
errVars == <<errIn, errOut>>
restOfEnv == <<outages, tokenVars, pipeVars, supVars, cfgVars, errVars>>
envVars == <<ctxDone, restOfEnv>>
proxyVars == <<runPc, runErr, cur, lnClosed, maxConns, sem, nextConnID, wg,
               active, pairs, snap, forced, timedOut, cl>>
poolVars == <<started, poolCap, conns, closed, fillStart, fillCalling,
              fillHolding, nextSess, sessLimit, sess>>
vars == <<envVars, proxyVars, poolVars>>

\* ------------------------------------------------------------- helpers

\* New: the effective capacity of the semaphore
EffectiveMaxConns(n) == IF n <= 0 THEN DefaultMaxConns ELSE n

\* NewBackendPool: the capacity of the FIFO
EffectivePoolSize(n) == IF n < MinPoolSize THEN MinPoolSize ELSE n

\* (variant: a send that is let through when the channel is already full)
SemCanSendWhenFull(n, capacity) == n <= capacity

\* `p.sem <- struct{}{}` can proceed: the buffered channel has room
SemCanSend(n, capacity) == n < capacity

\* (variant: a handshake that validates the password only)
AuthAcceptsAnyUser(cred) == cred[2] = ProxyPassword

\* authenticateClient / server.NewConn: the handshake validates the
\* presented user and password against the profile's proxy credentials
AuthAccepts(cred) == cred[1] = ProxyUser /\ cred[2] = ProxyPassword

\* (variant: no pooled session is ever considered too old)
ExpiredNever(age) == FALSE

\* Borrow: time.Since(pooled.createdAt) > p.maxLife
Expired(age) == age > MaxLife

\* Borrow: the summary line is logged iff staleDiscarded > 0
SummaryLines(staleDiscarded) == IF staleDiscarded > 0 THEN 1 ELSE 0

\* (variant: a receive that leaves the head in the channel)
ChanRestKeepsHead(q) == q

\* receive from the FIFO channel: the head leaves the channel
ChanRest(q) == Tail(q)

\* non-blocking send on the FIFO channel succeeds iff there is room
ChanHasRoom(q, capacity) == Len(q) < capacity

\* Conn.Close on a backend session: invoked once more; "by" names the
\* caller.  (age is the PooledConn item's createdAt; the item is gone once
\* the session has left the pool.)
CloseSession(ss, s, by) ==
  [ss EXCEPT ![s].closes = @ + 1,
             ![s].age = 0,
             ![s].pool = @ \/ (by = "pool"),
             ![s].deferred = @ + (IF by = "defer" THEN 1 ELSE 0)]

\* writeErrPacket: four bytes left for the packet header, the ERR marker,
\* the two bytes of the error code (low byte first), '#', the SQL state
\* and the message
NoPacket == << >>
writeErrPacket(code, msg) ==
  LET text == IF msg = "" THEN "backend unavailable" ELSE msg
  IN  <<0, 0, 0, 0, "mysql.ERR_HEADER", <<"byte", code, 0>>,
        <<"byte", code, 8>>, "#", "HY000", text>>

NewClient ==
  [st |-> "idle", cred |-> <<>>, id |-> 0,
   closed |-> FALSE, authed |-> FALSE, ctxAtCall |-> FALSE,
   backend |-> NoSession,
   stale |-> 0, aged |-> 0, summaries |-> 0, refills |-> 0,
   borrows |-> 0, factoryCalls |-> 0, pipes |-> 0, errPackets |-> 0,
   reads |-> 0, readErr |-> FALSE, pkt |-> NoPacket,
   acq |-> 0, rel |-> 0]

NewSession ==
  [age |-> 0, closes |-> 0, deferred |-> 0, pool |-> FALSE, handed |-> 0]

\* ------------------------------------------------------- token.Cache
Getters == 1..MaxGetters

\* A string is the sequence of its pieces; "|" is a piece like any other,
\* and no other piece holds a "|".
\* The profiles Get is called with: p1 and p2 share region and AWS profile;
\* p3 differs from p1 in the AWS profile only; p4 differs from p3 in the
\* database user and in the AWS profile.
Profiles ==
  { [name |-> <<"p1">>, host |-> <<"db.example">>, port |-> 3306,
     region |-> <<"eu-west-1">>, user |-> <<"app">>, aws |-> <<"dev">>],
    [name |-> <<"p2">>, host |-> <<"db.example">>, port |-> 3306,
     region |-> <<"eu-west-1">>, user |-> <<"app">>, aws |-> <<"dev">>],
    [name |-> <<"p1">>, host |-> <<"db.example">>, port |-> 3306,
     region |-> <<"eu-west-1">>, user |-> <<"app">>,
     aws |-> <<"team", "|", "x">>],
    [name |-> <<"p1">>, host |-> <<"db.example">>, port |-> 3306,
     region |-> <<"eu-west-1">>, user |-> <<"app", "|", "team">>,
     aws |-> <<"x">>] }

\* strconv.Itoa: the decimal text of n, one piece
Itoa(n) == <<ToString(n)>>

\* the key tuple of a profile: name, backend host, backend port, region,
\* backend database user, named credential profile
KeyTuple(p) == <<p.name, p.host, p.port, p.region, p.user, p.aws>>

\* cacheKey: the components joined with "|"
cacheKey(p) ==
  p.name \o <<"|">> \o p.host \o <<"|">> \o Itoa(p.port) \o <<"|">>
    \o p.region \o <<"|">> \o p.user \o <<"|">> \o p.aws

\* providerKey: region and AWS profile joined with "|"
providerKey(p) == p.region \o <<"|">> \o p.aws

CacheKeys == {cacheKey(p) : p \in Profiles}
ProviderKeys == {providerKey(p) : p \in Profiles}

\* the refreshBefore arguments given to token.New
RefreshBefores == {MainRefreshBefore, TokenTTL, TestRefreshBefore}

\* the zero CachedToken; minted is the key tuple a token was built for
NoToken == [value |-> 0, expiresAt |-> 0, minted |-> << >>]

\* (variant: a cached entry is never considered usable)
FreshNever(entry, t, rb) == FALSE

\* (variant: an entry exactly refreshBefore away from expiry is still used)
FreshOrEqual(entry, t, rb) == entry # NoToken /\ entry.expiresAt - t >= rb

\* Get: ok && time.Until(entry.ExpiresAt) > c.refreshBefore
Fresh(entry, t, rb) == entry # NoToken /\ entry.expiresAt - t > rb

\* build: the token the builder returns for profile p, the n-th for its key,
\* with ExpiresAt = time.Now().Add(ttl)
Minted(p, n, t) ==
  [value |-> n, expiresAt |-> t + TokenTTL, minted |-> KeyTuple(p)]

\* the locals of a Get call: err is set when Get returns an error, stage is
\* the prefix that error was wrapped with, loads and tries count the calls
\* of the loader and of the token builder
NewGetter ==
  [pc |-> "new", prof |-> CHOOSE p \in Profiles : TRUE, n |-> 0,
   hit |-> FALSE, err |-> FALSE, stage |-> "none", loads |-> 0, tries |-> 0,
   built |-> 0, res |-> NoToken, prev |-> NoToken]

\* the cache main creates, before any Get
TokenAtRest ==
  /\ tnow = 0
  /\ refreshBefore = MainRefreshBefore
  /\ entries = [k \in CacheKeys |-> NoToken]
  /\ awsProviders = {}
  /\ loaded = [k \in ProviderKeys |-> 0]
  /\ builds = [k \in CacheKeys |-> 0]
  /\ gt = [g \in Getters |-> NewGetter]

\* ------------------------------------------------------- Proxy.pipe
\* the two connections given to pipe, and the two copy directions
Socks == {"client", "backend"}
Dirs == {"up", "down"}

\* io.Copy(backend, client) is "up", io.Copy(client, backend) is "down"
Src(d) == IF d = "up" THEN "client" ELSE "backend"
Dst(d) == IF d = "up" THEN "backend" ELSE "client"

\* the errors io.Copy may return; "nil" when the source reached EOF
CopyErrors ==
  {"nil", "use of closed network connection", "connection reset by peer",
   "broken pipe", "unexpected protocol failure"}

\* An error is the sentinel its chain ends in ("none": it wraps no
\* sentinel) and the pieces of message text put before the sentinel's own
\* text; a piece is a sequence of words.
Sentinels == {"none", "io.EOF", "net.ErrClosed", "io.ErrUnexpectedEOF"}

Chunks ==
  {<<"write:">>, <<"broken">>, <<"pipe">>, <<"broken", "pipe">>,
   <<"closed", "pipe">>,
   <<"connection", "reset", "by", "peer">>,
   <<"use", "of", "closed", "network", "connection">>,
   <<"read/write", "on", "closed", "pipe">>,
   <<"unexpected", "protocol", "failure">>}

\* the nil error
NilErr == [wraps |-> "nil", chunks |-> << >>]

\* the Error() text of a sentinel
SentinelText(w) ==
  CASE w = "io.EOF" -> <<"EOF">>
    [] w = "net.ErrClosed" -> <<"use", "of", "closed", "network", "connection">>
    [] w = "io.ErrUnexpectedEOF" -> <<"unexpected", "EOF">>
    [] OTHER -> << >>

RECURSIVE Flatten(_)
Flatten(cs) == IF cs = << >> THEN << >> ELSE Head(cs) \o Flatten(Tail(cs))

\* err.Error()
ErrorText(err) == Flatten(err.chunks) \o SentinelText(err.wraps)

\* errors.Is(err, target) for a sentinel target
ErrorsIs(err, target) == err.wraps = target

\* strings.Contains, on words
Contains(text, phrase) ==
  \E i \in 0..(Len(text) - Len(phrase)) :
     SubSeq(text, i + 1, i + Len(phrase)) = phrase

\* isUseOfClosedConn
isUseOfClosedConn(err) ==
  /\ err # NilErr
  /\ Contains(ErrorText(err),
              <<"use", "of", "closed", "network", "connection">>)

\* (variant: "read/write on closed pipe" is not looked for)
isConnCloseErrNoClosedPipe(err) ==
  IF err = NilErr THEN FALSE
  ELSE IF ErrorsIs(err, "net.ErrClosed") \/ ErrorsIs(err, "io.EOF") THEN TRUE
  ELSE \/ Contains(ErrorText(err), <<"connection", "reset", "by", "peer">>)
       \/ Contains(ErrorText(err), <<"broken", "pipe">>)
       \/ isUseOfClosedConn(err)

\* isConnCloseErr
isConnCloseErr(err) ==
  IF err = NilErr THEN FALSE
  ELSE IF ErrorsIs(err, "net.ErrClosed") \/ ErrorsIs(err, "io.EOF") THEN TRUE
  ELSE \/ Contains(ErrorText(err), <<"connection", "reset", "by", "peer">>)
       \/ Contains(ErrorText(err), <<"broken", "pipe">>)
       \/ Contains(ErrorText(err), <<"read/write", "on", "closed", "pipe">>)
       \/ isUseOfClosedConn(err)

\* the errors io.Copy returns in a pipe, as errors: a Read or Write on a
\* connection closed locally wraps net.ErrClosed, the others carry their
\* text only
NetErr(name) ==
  CASE name = "nil" -> NilErr
    [] name = "use of closed network connection" ->
         [wraps |-> "net.ErrClosed", chunks |-> << >>]
    [] name = "connection reset by peer" ->
         [wraps |-> "none",
          chunks |-> << <<"connection", "reset", "by", "peer">> >>]
    [] name = "broken pipe" ->
         [wraps |-> "none", chunks |-> << <<"write:">>, <<"broken", "pipe">> >>]
    [] OTHER ->
         [wraps |-> "none",
          chunks |-> << <<"unexpected", "protocol", "failure">> >>]

\* the errors isConnCloseErr is applied to
RECURSIVE ChunkSeqs(_)
ChunkSeqs(n) ==
  IF n = 0 THEN {<< >>}
  ELSE ChunkSeqs(n - 1)
       \cup {Append(q, c) : q \in {x \in ChunkSeqs(n - 1) : Len(x) = n - 1},
                            c \in Chunks}

ErrInputs ==
  {NilErr} \cup {[wraps |-> w, chunks |-> q] :
                    w \in Sentinels, q \in ChunkSeqs(MaxChunks)}

\* isConnCloseErr has not been called
ErrAtRest ==
  /\ errIn = NilErr
  /\ errOut = "none"

\* pipe: the error returned for the two results, the first one received
\* first
PipeResult(first, second) ==
  IF first # "nil" /\ ~isConnCloseErr(NetErr(first)) THEN first
  ELSE IF second # "nil" /\ ~isConnCloseErr(NetErr(second)) THEN second
  ELSE "nil"

\* no pipe is running
PipeAtRest ==
  /\ pipePc = "off"
  /\ copyPc = [d \in Dirs |-> "off"]
  /\ copyErr = [d \in Dirs |-> "nil"]
  /\ sockClosed = [x \in Socks |-> FALSE]
  /\ peerClosed = [x \in Socks |-> FALSE]
  /\ resCh = << >>
  /\ got = << >>
  /\ pipeRet = "none"
  /\ copyN = [d \in Dirs |-> 0]
  /\ pipeUp = 0
  /\ pipeDown = 0

\* ---------------------------------------------------------------- Init
\* The state after main has built the pool (NewBackendPool) and the proxy
\* (New): nothing started, nothing accepted.
\* ------------------------------------------------------------- config
\* A listen address is its text cut into pieces: a host, "[", "]", ":", a
\* port.  Hosts are taken from this list.
Hosts ==
  {"127.0.0.1", "127.8.0.9", "0.0.0.0", "192.168.1.10", "::1", "::",
   "::ffff:127.0.0.1", "localhost", ""}

\* the hosts whose text holds a colon
ColonHosts == {"::1", "::", "::ffff:127.0.0.1"}

defaultListenAddr == <<"127.0.0.1", ":", "3307">>
defaultMaxConns == 20
maxConnsHardLimit == 200

\* the listen addresses a profile is given
ListenAddrs ==
  {<< >>,
   <<"127.0.0.1">>,
   <<"[", "::1", "]">>}
  \cup {<<h, ":", "3307">> : h \in Hosts}
  \cup {<<"[", h, "]", ":", "3307">> : h \in ColonHosts}

\* max_conns values of a profile and of the --max-conns flag
MaxConnsValues ==
  {-1, 0, 1, defaultMaxConns, maxConnsHardLimit, maxConnsHardLimit + 1}

Passwords == {"", "secret", "change-me", "change-me-too"}

\* the profiles of the configuration file: every field but these four is
\* filled in and valid
ProfileInputs ==
  {[Name |-> "p1", ProxyUser |-> "local_proxy_1", RDSHost |-> "db.example",
    RDSRegion |-> "eu-west-1", RDSDBUser |-> "db_user_1",
    CABundle |-> ca, ListenAddr |-> a, MaxConns |-> n, ProxyPassword |-> pw] :
     ca \in {"ca.pem", "missing.pem"}, a \in ListenAddrs,
     n \in MaxConnsValues, pw \in Passwords}

\* the files os.Stat finds
ExistingFiles == {"ca.pem"}

\* the index of the last ":" of the address (0: none)
LastColon(a) ==
  IF \E i \in DOMAIN a : a[i] = ":"
    THEN CHOOSE i \in DOMAIN a :
           a[i] = ":" /\ \A j \in DOMAIN a : j > i => a[j] # ":"
    ELSE 0

\* net.SplitHostPort: the text before the last colon is the host, in
\* brackets when it holds a colon itself
SplitHostPort(a) ==
  LET i == LastColon(a)
      bad(why) == [host |-> "", port |-> "", err |-> why]
  IN  IF a # << >> /\ a[1] \in ColonHosts
        THEN bad("too many colons in address")
      ELSE IF i = 0 THEN bad("missing port in address")
      ELSE IF a[1] = "["
        THEN IF i = 4 /\ a[3] = "]"
               THEN [host |-> a[2],
                     port |-> IF Len(a) > i THEN a[i + 1] ELSE "",
                     err |-> "nil"]
               ELSE bad("missing port in address")
      ELSE IF i = 1
        THEN [host |-> "", port |-> IF Len(a) > i THEN a[i + 1] ELSE "",
              err |-> "nil"]
      ELSE IF i = 2
        THEN [host |-> a[1], port |-> IF Len(a) > i THEN a[i + 1] ELSE "",
              err |-> "nil"]
      ELSE bad("too many colons in address")

\* net.ParseIP: the address bytes of an IP literal (4 for the dotted
\* form, 16 otherwise), << >> (nil) for any other text
ParseIP(host) ==
  CASE host = "127.0.0.1" -> <<127, 0, 0, 1>>
    [] host = "127.8.0.9" -> <<127, 8, 0, 9>>
    [] host = "0.0.0.0" -> <<0, 0, 0, 0>>
    [] host = "192.168.1.10" -> <<192, 168, 1, 10>>
    [] host = "::1" -> <<0, 0, 0, 0, 0, 0, 0, 0, 0, 0, 0, 0, 0, 0, 0, 1>>
    [] host = "::" -> <<0, 0, 0, 0, 0, 0, 0, 0, 0, 0, 0, 0, 0, 0, 0, 0>>
    [] host = "::ffff:127.0.0.1" ->
         <<0, 0, 0, 0, 0, 0, 0, 0, 0, 0, 255, 255, 127, 0, 0, 1>>
    [] OTHER -> << >>

\* IP.To4: the four bytes of an IPv4 address, also when it is written
\* as an IPv4-mapped IPv6 address
To4(ip) ==
  IF Len(ip) = 4 THEN ip
  ELSE IF /\ Len(ip) = 16
          /\ \A i \in 1..10 : ip[i] = 0
          /\ ip[11] = 255 /\ ip[12] = 255
         THEN SubSeq(ip, 13, 16)
  ELSE << >>

\* (variant: every IP address counts as loopback)
IsLoopbackAny(ip) == TRUE

\* IP.IsLoopback: 127.0.0.0/8 or ::1
IsLoopback(ip) ==
  IF To4(ip) # << >>
    THEN To4(ip)[1] = 127
    ELSE ip = <<0, 0, 0, 0, 0, 0, 0, 0, 0, 0, 0, 0, 0, 0, 0, 1>>

\* isLoopbackAddr
isLoopbackAddr(addr) ==
  LET hp == SplitHostPort(addr)
      ip == ParseIP(hp.host)
  IN  IF hp.err # "nil" THEN FALSE
      ELSE ip # << >> /\ IsLoopback(ip)

\* applyDefaults (the listen address and max_conns)
applyDefaults(p) ==
  [p EXCEPT !.ListenAddr = IF @ = << >> THEN defaultListenAddr ELSE @,
            !.MaxConns = IF @ = 0 THEN defaultMaxConns ELSE @]

\* (variant: no upper limit on max_conns)
validateProfileNoCap(p) ==
  IF p.Name = "" THEN "name is required"
  ELSE IF p.ProxyUser = "" THEN "proxy_user is required"
  ELSE IF p.MaxConns < 1 THEN "max_conns must be >= 1"
  ELSE IF p.RDSHost = "" THEN "rds_host is required"
  ELSE IF p.RDSRegion = "" THEN "rds_region is required"
  ELSE IF p.RDSDBUser = "" THEN "rds_db_user is required"
  ELSE IF p.ProxyUser = p.RDSDBUser
    THEN "proxy_user and rds_db_user must be different"
  ELSE IF p.CABundle = "" THEN "ca_bundle is required"
  ELSE IF SplitHostPort(p.ListenAddr).err # "nil" THEN "invalid listen_addr"
  ELSE "nil"

\* validateProfile: the error, "nil" for none
validateProfile(p) ==
  IF p.Name = "" THEN "name is required"
  ELSE IF p.ProxyUser = "" THEN "proxy_user is required"
  ELSE IF p.MaxConns < 1 THEN "max_conns must be >= 1"
  ELSE IF p.MaxConns > maxConnsHardLimit THEN "max_conns must be <= 200"
  ELSE IF p.RDSHost = "" THEN "rds_host is required"
  ELSE IF p.RDSRegion = "" THEN "rds_region is required"
  ELSE IF p.RDSDBUser = "" THEN "rds_db_user is required"
  ELSE IF p.ProxyUser = p.RDSDBUser
    THEN "proxy_user and rds_db_user must be different"
  ELSE IF p.CABundle = "" THEN "ca_bundle is required"
  ELSE IF SplitHostPort(p.ListenAddr).err # "nil" THEN "invalid listen_addr"
  ELSE "nil"

\* Profile.ValidateRuntime: the error, "nil" for none
ValidateRuntime(p, allowDevEmptyPassword) ==
  IF p.ProxyPassword = "" /\ ~allowDevEmptyPassword
    THEN "proxy_password is empty"
  ELSE IF p.ProxyPassword = "change-me" \/ p.ProxyPassword = "change-me-too"
    THEN "proxy_password must not use example default value"
  ELSE IF ~isLoopbackAddr(p.ListenAddr) THEN "listen_addr is not loopback"
  ELSE IF p.CABundle \notin ExistingFiles THEN "ca_bundle not readable"
  ELSE "nil"

\* main: resolvedMaxConns
resolvedMaxConns(profileMaxConns, flag) ==
  IF flag > 0 THEN flag ELSE profileMaxConns

NoProfile ==
  [Name |-> "", ProxyUser |-> "", RDSHost |-> "", RDSRegion |-> "",
   RDSDBUser |-> "", CABundle |-> "", ListenAddr |-> << >>, MaxConns |-> 0,
   ProxyPassword |-> ""]

\* main has not been started
CfgAtRest ==
  /\ cfgPc = "off"
  /\ cfgProf = NoProfile
  /\ cfgFlag = 0
  /\ cfgAllow = FALSE
  /\ cfgErr = "nil"
  /\ cfgSem = 0

\* ------------------------------------------------------------- main
Instances == 1..MaxInstances

\* the process has not exited
NoExit == -1

NewInstance ==
  [pc |-> "none", ret |-> "none",
   prewarm |-> FALSE, bound |-> FALSE, accepted |-> FALSE]

\* main has not reached the supervisor code
SupAtRest ==
  /\ mainPc = "off"
  /\ exitCode = NoExit
  /\ selected = 0
  /\ inst = [i \in Instances |-> NewInstance]
  /\ errCh = 0
  /\ mainWg = 0
  /\ waiterPc = "none"
  /\ sigPc = "off"

Init ==
  /\ ctxDone = FALSE
  /\ outages = 0
  /\ runPc = "new"
  /\ runErr = "none"
  /\ cur = 0
  /\ lnClosed = FALSE
  /\ \E n \in MaxConnsArgs : maxConns = EffectiveMaxConns(n)
  /\ sem = 0
  /\ nextConnID = 0
  /\ wg = 0
  /\ active = {}
  /\ pairs = {}
  /\ snap = {}
  /\ forced = 0
  /\ timedOut = FALSE
  /\ cl = [c \in Clients |-> NewClient]
  /\ started = FALSE
  /\ \E n \in 0..MaxProxyPoolSize : poolCap = EffectivePoolSize(n)
  /\ conns = << >>
  /\ closed = FALSE
  /\ fillStart = 0
  /\ fillCalling = 0
  /\ fillHolding = {}
  /\ nextSess = 1
  /\ sessLimit = MaxProxySessions
  /\ sess = [s \in Sessions |-> NewSession]
  /\ TokenAtRest
  /\ PipeAtRest
  /\ CfgAtRest
  /\ ErrAtRest
  /\ SupAtRest

\* ---------------------------------------------------------- environment

\* The supervisor (or a signal) cancels the context shared by Run and Borrow.
Cancel ==
  /\ ~ctxDone
  /\ ctxDone' = TRUE
  /\ UNCHANGED <<restOfEnv, proxyVars, poolVars>>

\* the sessions owned by the pool: created by fillOne and not yet handed
\* out or closed
Idle == fillHolding \cup {conns[i] : i \in DOMAIN conns}

\* Time passes: every pooled session grows one tick older.  time.Since is
\* only compared with maxLife, so ages stop at MaxLife + 1.
Tick ==
  /\ \E s \in Idle : sess[s].age <= MaxLife
  /\ sess' = [s \in Sessions |->
               IF s \in Idle /\ sess[s].age <= MaxLife
                 THEN [sess[s] EXCEPT !.age = @ + 1]
                 ELSE sess[s]]
  /\ UNCHANGED <<envVars, proxyVars, started, poolCap, conns, closed,
                 fillStart, fillCalling, fillHolding, nextSess, sessLimit>>

\* ---------------------------------------------------------- BackendPool

\* (variant: the loop of Start runs once too often)
StartOneMore ==
  /\ ~started
  /\ runPc = "new"
  /\ started' = TRUE
  /\ fillStart' = fillStart + poolCap + 1
  /\ UNCHANGED <<envVars, proxyVars, poolCap, conns, closed, fillCalling,
                 fillHolding, nextSess, sessLimit, sess>>

\* Start: one fillOne goroutine per FIFO slot.
Start ==
  /\ ~started
  /\ runPc = "new"
  /\ started' = TRUE
  /\ fillStart' = fillStart + poolCap
  /\ UNCHANGED <<envVars, proxyVars, poolCap, conns, closed, fillCalling,
                 fillHolding, nextSess, sessLimit, sess>>

\* fillOne, closed-check under the read lock: the pool is closed, return.
FillSkipClosed ==
  /\ fillStart > 0
  /\ closed
  /\ fillStart' = fillStart - 1
  /\ UNCHANGED <<envVars, proxyVars, started, poolCap, conns, closed,
                 fillCalling, fillHolding, nextSess, sessLimit, sess>>

\* p.refillCtx is done: it is made from context.Background() and
\* cancelled only by p.refillCancel(), which Close calls when it sets
\* p.closed (Start does not use the ctx it is given)
RefillCtxDone == closed

\* fillOne, closed-check passed: go on to the factory call.
FillBegin ==
  /\ fillStart > 0
  /\ ~closed
  /\ fillStart' = fillStart - 1
  /\ fillCalling' = fillCalling + 1
  /\ UNCHANGED <<envVars, proxyVars, started, poolCap, conns, closed,
                 fillHolding, nextSess, sessLimit, sess>>

\* fillOne: the factory fails (backend down, timeout, refill scope
\* cancelled); a warning is logged and the task ends without retry.
FillFactoryErr ==
  /\ fillCalling > 0
  /\ fillCalling' = fillCalling - 1
  /\ UNCHANGED <<envVars, proxyVars, started, poolCap, conns, closed,
                 fillStart, fillHolding, nextSess, sessLimit, sess>>

\* fillOne: the factory returns a session; the PooledConn item is built
\* with createdAt = time.Now().
FillFactoryOK ==
  /\ fillCalling > 0
  /\ nextSess <= sessLimit
  /\ fillCalling' = fillCalling - 1
  /\ fillHolding' = fillHolding \cup {nextSess}
  /\ sess' = [sess EXCEPT ![nextSess].age = 0]
  /\ nextSess' = nextSess + 1
  /\ UNCHANGED <<envVars, proxyVars, started, poolCap, conns, closed,
                 fillStart, sessLimit>>

\* fillOne: non-blocking send, the FIFO has room.
FillEnqueue(s) ==
  /\ s \in fillHolding
  /\ ChanHasRoom(conns, poolCap)
  /\ conns' = Append(conns, s)
  /\ fillHolding' = fillHolding \ {s}
  /\ UNCHANGED <<envVars, proxyVars, started, poolCap, closed, fillStart,
                 fillCalling, nextSess, sessLimit, sess>>

\* (variant: on a full FIFO the new session is dropped without Close)
FillDiscardUnclosed(s) ==
  /\ s \in fillHolding
  /\ ~ChanHasRoom(conns, poolCap)
  /\ fillHolding' = fillHolding \ {s}
  /\ UNCHANGED <<envVars, proxyVars, started, poolCap, conns, closed,
                 fillStart, fillCalling, nextSess, sessLimit, sess>>

\* fillOne: non-blocking send, the FIFO is full: close the new session.
FillDiscard(s) ==
  /\ s \in fillHolding
  /\ ~ChanHasRoom(conns, poolCap)
  /\ sess' = CloseSession(sess, s, "pool")
  /\ fillHolding' = fillHolding \ {s}
  /\ UNCHANGED <<envVars, proxyVars, started, poolCap, conns, closed,
                 fillStart, fillCalling, nextSess, sessLimit>>

\* Close (deferred by Run), under the write lock: mark closed and cancel
\* the refill scope.  Run calls Close once, so the already-closed early
\* return is not taken here.
CloseMark ==
  /\ runPc = "closing"
  /\ ~closed
  /\ closed' = TRUE
  /\ runPc' = "draining"
  /\ UNCHANGED <<envVars, runErr, cur, lnClosed, maxConns, sem, nextConnID,
                 wg, active, pairs, snap, forced, timedOut, cl, started, poolCap,
                 conns, fillStart, fillCalling, fillHolding, nextSess, sessLimit, sess>>

\* (variant: the drain loop receives the session and does not close it)
CloseDrainOneUnclosed ==
  /\ runPc = "draining"
  /\ conns # << >>
  /\ conns' = ChanRest(conns)
  /\ UNCHANGED <<envVars, proxyVars, started, poolCap, closed, fillStart,
                 fillCalling, fillHolding, nextSess, sessLimit, sess>>

\* Close, drain loop: receive one pooled session and close it.
CloseDrainOne ==
  /\ runPc = "draining"
  /\ conns # << >>
  /\ sess' = CloseSession(sess, Head(conns), "pool")
  /\ conns' = ChanRest(conns)
  /\ UNCHANGED <<envVars, proxyVars, started, poolCap, closed, fillStart,
                 fillCalling, fillHolding, nextSess, sessLimit>>

\* Close, drain loop: the FIFO is empty; Close returns and so does Run.
CloseDrainEnd ==
  /\ runPc = "draining"
  /\ conns = << >>
  /\ runPc' = "returned"
  /\ UNCHANGED <<envVars, runErr, cur, lnClosed, maxConns, sem, nextConnID,
                 wg, active, pairs, snap, forced, timedOut, cl, poolVars>>

\* ------------------------------------------ BackendPool.Borrow (by worker c)

\* select: <-ctx.Done() is ready; log the summary if any stale discard was
\* counted and return ctx.Err().
BorrowCtxDone(c) ==
  /\ cl[c].st = "borrow"
  /\ ctxDone
  /\ cl' = [cl EXCEPT ![c].summaries = @ + SummaryLines(cl[c].stale),
                      ![c].st = "respond"]
  /\ UNCHANGED <<envVars, runPc, runErr, cur, lnClosed, maxConns, sem,
                 nextConnID, wg, active, pairs, snap, forced, timedOut, poolVars>>

\* (variant: the expired session is closed, but the `continue` is missing
\* and the session is returned)
BorrowExpiredReturned(c) ==
  /\ cl[c].st = "borrow"
  /\ conns # << >>
  /\ Expired(sess[Head(conns)].age)
  /\ sess' = [CloseSession(sess, Head(conns), "pool")
               EXCEPT ![Head(conns)].handed = @ + 1]
  /\ conns' = ChanRest(conns)
  /\ fillStart' = fillStart + 1
  /\ cl' = [cl EXCEPT ![c].aged = @ + 1, ![c].refills = @ + 1,
                      ![c].backend = Head(conns), ![c].st = "attach"]
  /\ UNCHANGED <<envVars, runPc, runErr, cur, lnClosed, maxConns, sem,
                 nextConnID, wg, active, pairs, snap, forced, timedOut, started,
                 poolCap, closed, fillCalling, fillHolding, nextSess, sessLimit>>

\* select: a pooled session is received and is older than maxLife: close
\* it, start a refill, retry.  staleDiscarded is not incremented.
BorrowExpired(c) ==
  /\ cl[c].st = "borrow"
  /\ conns # << >>
  /\ Expired(sess[Head(conns)].age)
  /\ sess' = CloseSession(sess, Head(conns), "pool")
  /\ conns' = ChanRest(conns)
  /\ fillStart' = fillStart + 1
  /\ cl' = [cl EXCEPT ![c].aged = @ + 1, ![c].refills = @ + 1]
  /\ UNCHANGED <<envVars, runPc, runErr, cur, lnClosed, maxConns, sem,
                 nextConnID, wg, active, pairs, snap, forced, timedOut, started,
                 poolCap, closed, fillCalling, fillHolding, nextSess, sessLimit>>

\* (variant: the session that failed Ping is closed and no refill task is
\* started for it)
BorrowPingFailNoRefill(c) ==
  /\ cl[c].st = "borrow"
  /\ conns # << >>
  /\ ~Expired(sess[Head(conns)].age)
  /\ sess' = CloseSession(sess, Head(conns), "pool")
  /\ conns' = ChanRest(conns)
  /\ cl' = [cl EXCEPT ![c].stale = @ + 1]
  /\ UNCHANGED <<envVars, runPc, runErr, cur, lnClosed, maxConns, sem,
                 nextConnID, wg, active, pairs, snap, forced, timedOut, started,
                 poolCap, closed, fillStart, fillCalling, fillHolding, nextSess,
                 sessLimit>>

\* select: a pooled session is received, is young enough, and Ping fails:
\* count it, close it, start a refill, retry.
BorrowPingFail(c) ==
  /\ cl[c].st = "borrow"
  /\ conns # << >>
  /\ ~Expired(sess[Head(conns)].age)
  /\ sess' = CloseSession(sess, Head(conns), "pool")
  /\ conns' = ChanRest(conns)
  /\ fillStart' = fillStart + 1
  /\ cl' = [cl EXCEPT ![c].stale = @ + 1, ![c].refills = @ + 1]
  /\ UNCHANGED <<envVars, runPc, runErr, cur, lnClosed, maxConns, sem,
                 nextConnID, wg, active, pairs, snap, forced, timedOut, started,
                 poolCap, closed, fillCalling, fillHolding, nextSess, sessLimit>>

\* select: a pooled session is received, is young enough, and Ping
\* succeeds: start a refill, log the summary, return the session.
BorrowPooled(c) ==
  /\ cl[c].st = "borrow"
  /\ conns # << >>
  /\ ~Expired(sess[Head(conns)].age)
  /\ sess' = [sess EXCEPT ![Head(conns)].handed = @ + 1,
                          ![Head(conns)].age = 0]
  /\ conns' = ChanRest(conns)
  /\ fillStart' = fillStart + 1
  /\ cl' = [cl EXCEPT ![c].refills = @ + 1,
                      ![c].summaries = @ + SummaryLines(cl[c].stale),
                      ![c].backend = Head(conns),
                      ![c].st = "attach"]
  /\ UNCHANGED <<envVars, runPc, runErr, cur, lnClosed, maxConns, sem,
                 nextConnID, wg, active, pairs, snap, forced, timedOut, started,
                 poolCap, closed, fillCalling, fillHolding, nextSess, sessLimit>>

\* select default (nothing ready): log the summary and return the result
\* of a synchronous factory call - here a new session.
BorrowFactoryOK(c) ==
  /\ cl[c].st = "borrow"
  /\ conns = << >>
  /\ ~ctxDone
  /\ nextSess <= sessLimit
  /\ sess' = [sess EXCEPT ![nextSess].handed = @ + 1]
  /\ nextSess' = nextSess + 1
  /\ cl' = [cl EXCEPT ![c].summaries = @ + SummaryLines(cl[c].stale),
                      ![c].factoryCalls = @ + 1,
                      ![c].backend = nextSess,
                      ![c].st = "attach"]
  /\ UNCHANGED <<envVars, runPc, runErr, cur, lnClosed, maxConns, sem,
                 nextConnID, wg, active, pairs, snap, forced, timedOut, started,
                 poolCap, conns, closed, fillStart, fillCalling, fillHolding,
                 sessLimit>>

\* (variant: after a failed factory call Borrow goes round its loop again)
BorrowFactoryErrRetry(c) ==
  /\ cl[c].st = "borrow"
  /\ conns = << >>
  /\ ~ctxDone
  /\ cl' = [cl EXCEPT ![c].factoryCalls = @ + 1]
  /\ UNCHANGED <<envVars, runPc, runErr, cur, lnClosed, maxConns, sem,
                 nextConnID, wg, active, pairs, snap, forced, timedOut, poolVars>>

\* select default: the synchronous factory call fails.
BorrowFactoryErr(c) ==
  /\ cl[c].st = "borrow"
  /\ conns = << >>
  /\ ~ctxDone
  /\ cl' = [cl EXCEPT ![c].summaries = @ + SummaryLines(cl[c].stale),
                      ![c].factoryCalls = @ + 1,
                      ![c].st = "respond"]
  /\ UNCHANGED <<envVars, runPc, runErr, cur, lnClosed, maxConns, sem,
                 nextConnID, wg, active, pairs, snap, forced, timedOut, poolVars>>

\* ------------------------------------------------------------ Proxy.Run

\* net.Listen succeeds; the goroutine that closes the listener on
\* cancellation is armed and the accept loop starts.  (main calls
\* pool.Start before Run.)
ListenOK ==
  /\ runPc = "new"
  /\ started
  /\ runPc' = "accept"
  /\ UNCHANGED <<envVars, runErr, cur, lnClosed, maxConns, sem, nextConnID,
                 wg, active, pairs, snap, forced, timedOut, cl, poolVars>>

\* net.Listen fails: return err (the deferred pool.Close runs).
ListenFail ==
  /\ runPc = "new"
  /\ started
  /\ runErr' = "err"
  /\ runPc' = "closing"
  /\ UNCHANGED <<envVars, cur, lnClosed, maxConns, sem, nextConnID,
                 wg, active, pairs, snap, forced, timedOut, cl, poolVars>>

\* The watcher goroutine: <-ctx.Done(); p.ln.Close().
CloseListener ==
  /\ runPc # "new"
  /\ runErr # "err"
  /\ ctxDone
  /\ ~lnClosed
  /\ lnClosed' = TRUE
  /\ UNCHANGED <<envVars, runPc, runErr, cur, maxConns, sem, nextConnID,
                 wg, active, pairs, snap, forced, timedOut, cl, poolVars>>

\* the next connection that has not arrived yet
NextArrival == CHOOSE c \in Clients :
                 /\ cl[c].st = "idle"
                 /\ \A d \in Clients : d < c => cl[d].st # "idle"

\* p.ln.Accept returns a connection.
AcceptConn ==
  /\ runPc = "accept"
  /\ ~lnClosed
  /\ \E c \in Clients : cl[c].st = "idle"
  /\ cur' = NextArrival
  /\ cl' = [cl EXCEPT ![NextArrival].st = "accepted"]
  /\ runPc' = "sem"
  /\ UNCHANGED <<envVars, runErr, lnClosed, maxConns, sem, nextConnID,
                 wg, active, pairs, snap, forced, timedOut, poolVars>>

\* p.ln.Accept returns an error and the loop breaks: the listener is
\* closed (net.ErrClosed) or ctx.Err() != nil.  (Any other accept error is
\* logged and the loop continues in the same state.)
AcceptBreak ==
  /\ runPc = "accept"
  /\ lnClosed \/ ctxDone
  /\ runPc' = "wait"
  /\ UNCHANGED <<envVars, runErr, cur, lnClosed, maxConns, sem, nextConnID,
                 wg, active, pairs, snap, forced, timedOut, cl, poolVars>>

\* select: p.sem <- struct{}{} proceeds.
SemAcquire ==
  /\ runPc = "sem"
  /\ SemCanSend(sem, maxConns)
  /\ sem' = sem + 1
  /\ cl' = [cl EXCEPT ![cur].acq = @ + 1]
  /\ runPc' = "dispatch"
  /\ UNCHANGED <<envVars, runErr, cur, lnClosed, maxConns, nextConnID,
                 wg, active, pairs, snap, forced, timedOut, poolVars>>

\* (variant: pool.Close is not deferred but called after the final
\* select, so this return skips it)
SemCancelNoClose ==
  /\ runPc = "sem"
  /\ ctxDone
  /\ cl' = [cl EXCEPT ![cur].closed = TRUE, ![cur].st = "rejected"]
  /\ cur' = 0
  /\ runErr' = "nil"
  /\ runPc' = "returned"
  /\ UNCHANGED <<envVars, lnClosed, maxConns, sem, nextConnID,
                 wg, active, pairs, snap, forced, timedOut, poolVars>>

\* select: <-ctx.Done() is ready: close the accepted connection and
\* return nil, straight out of Run.
SemCancel ==
  /\ runPc = "sem"
  /\ ctxDone
  /\ cl' = [cl EXCEPT ![cur].closed = TRUE, ![cur].st = "rejected"]
  /\ cur' = 0
  /\ runErr' = "nil"
  /\ runPc' = "closing"
  /\ UNCHANGED <<envVars, lnClosed, maxConns, sem, nextConnID,
                 wg, active, pairs, snap, forced, timedOut, poolVars>>

\* connID := p.nextConnID.Add(1); p.wg.Add(1); go func(...){...}
Dispatch ==
  /\ runPc = "dispatch"
  /\ nextConnID' = nextConnID + 1
  /\ wg' = wg + 1
  /\ cl' = [cl EXCEPT ![cur].id = nextConnID + 1, ![cur].st = "spawned"]
  /\ cur' = 0
  /\ runPc' = "accept"
  /\ UNCHANGED <<envVars, runErr, lnClosed, maxConns, sem,
                 active, pairs, snap, forced, timedOut, poolVars>>

\* after the loop, select: <-done (p.wg.Wait returned): return nil.
WaitDone ==
  /\ runPc = "wait"
  /\ wg = 0
  /\ runErr' = "nil"
  /\ runPc' = "closing"
  /\ UNCHANGED <<envVars, cur, lnClosed, maxConns, sem, nextConnID,
                 wg, active, pairs, snap, forced, timedOut, cl, poolVars>>

\* after the loop, select: time.After(p.shutdownTimeout) fires;
\* activeSummary reads the session map for the log line.
WaitTimeout ==
  /\ runPc = "wait"
  /\ timedOut' = TRUE
  /\ runPc' = "snapshot"
  /\ UNCHANGED <<envVars, runErr, cur, lnClosed, maxConns, sem, nextConnID,
                 wg, active, pairs, snap, forced, cl, poolVars>>

\* forceCloseActive: copy the tracked sockets under the read lock.
ForceSnapshot ==
  /\ runPc = "snapshot"
  /\ pairs' = {[client |-> e.client, backend |-> e.backend] : e \in active}
  /\ snap' = pairs'
  /\ forced' = 0
  /\ runPc' = "forcing"
  /\ UNCHANGED <<envVars, runErr, cur, lnClosed, maxConns, sem, nextConnID,
                 wg, active, timedOut, cl, poolVars>>

\* (variant: the loop closes and counts the client socket only)
ForceCloseItemClientOnly(item) ==
  /\ runPc = "forcing"
  /\ item \in pairs
  /\ cl' = [cl EXCEPT ![item.client].closed = TRUE]
  /\ forced' = forced + 1
  /\ pairs' = pairs \ {item}
  /\ UNCHANGED <<envVars, runPc, runErr, cur, lnClosed, maxConns, sem,
                 nextConnID, wg, active, snap, timedOut, poolVars>>

\* forceCloseActive: close the sockets of one snapshot entry.
ForceCloseItem(item) ==
  /\ runPc = "forcing"
  /\ item \in pairs
  /\ cl' = [cl EXCEPT ![item.client].closed = TRUE]
  /\ sess' = IF item.backend # NoSession
               THEN CloseSession(sess, item.backend, "force")
               ELSE sess
  /\ forced' = forced + 1 + (IF item.backend # NoSession THEN 1 ELSE 0)
  /\ pairs' = pairs \ {item}
  /\ UNCHANGED <<envVars, runPc, runErr, cur, lnClosed, maxConns, sem,
                 nextConnID, wg, active, snap, timedOut, started, poolCap, conns,
                 closed, fillStart, fillCalling, fillHolding, nextSess, sessLimit>>

\* forceCloseActive: the loop over the snapshot, in map order.
ForceCloseNext == \E item \in pairs : ForceCloseItem(item)

\* forceCloseActive returns its counter; the warning is logged.
ForceDone ==
  /\ runPc = "forcing"
  /\ pairs = {}
  /\ forced' = 0
  /\ snap' = {}
  /\ runPc' = "grace"
  /\ UNCHANGED <<envVars, runErr, cur, lnClosed, maxConns, sem, nextConnID,
                 wg, active, pairs, timedOut, cl, poolVars>>

\* second select: <-done: return nil.
GraceDone ==
  /\ runPc = "grace"
  /\ wg = 0
  /\ runErr' = "nil"
  /\ runPc' = "closing"
  /\ UNCHANGED <<envVars, cur, lnClosed, maxConns, sem, nextConnID,
                 wg, active, pairs, snap, forced, timedOut, cl, poolVars>>

\* second select: time.After(2 * time.Second) fires: return nil.
GraceTimeout ==
  /\ runPc = "grace"
  /\ runErr' = "nil"
  /\ runPc' = "closing"
  /\ UNCHANGED <<envVars, cur, lnClosed, maxConns, sem, nextConnID,
                 wg, active, pairs, snap, forced, timedOut, cl, poolVars>>

\* --------------------------------- worker goroutine: Proxy.handleConn

\* trackClient
Track(c) ==
  /\ cl[c].st = "spawned"
  /\ active' = active \cup {[id |-> cl[c].id, client |-> c,
                             backend |-> NoSession]}
  /\ cl' = [cl EXCEPT ![c].st = "auth"]
  /\ UNCHANGED <<envVars, runPc, runErr, cur, lnClosed, maxConns, sem,
                 nextConnID, wg, pairs, snap, forced, timedOut, poolVars>>

\* where handleConn goes after authenticateClient returned
AfterAuth(ok) == IF ok THEN "borrow" ELSE "closeClient"

\* authenticateClient succeeds: the peer presented cred on an open socket
\* and the handshake accepted it.  Borrow is entered.
AuthOK(c, cred) ==
  /\ cl[c].st = "auth"
  /\ ~cl[c].closed
  /\ AuthAccepts(cred)
  /\ cl' = [cl EXCEPT ![c].st = AfterAuth(TRUE), ![c].cred = cred,
                      ![c].authed = TRUE, ![c].borrows = @ + 1,
                      ![c].ctxAtCall = ctxDone]
  /\ UNCHANGED <<envVars, runPc, runErr, cur, lnClosed, maxConns, sem,
                 nextConnID, wg, active, pairs, snap, forced, timedOut, poolVars>>

\* authenticateClient returns an error: the handshake rejected cred.
AuthReject(c, cred) ==
  /\ cl[c].st = "auth"
  /\ ~cl[c].closed
  /\ ~AuthAccepts(cred)
  /\ cl' = [cl EXCEPT ![c].st = AfterAuth(FALSE),
                      ![c].cred = IF AfterAuth(FALSE) = "borrow"
                                    THEN cred ELSE @,
                      ![c].borrows = @ + (IF AfterAuth(FALSE) = "borrow"
                                            THEN 1 ELSE 0)]
  /\ UNCHANGED <<envVars, runPc, runErr, cur, lnClosed, maxConns, sem,
                 nextConnID, wg, active, pairs, snap, forced, timedOut, poolVars>>

\* authenticateClient returns an error: the handshake I/O failed (the
\* peer hung up, or the socket was force-closed).
AuthIOError(c) ==
  /\ cl[c].st = "auth"
  /\ cl' = [cl EXCEPT ![c].st = AfterAuth(FALSE),
                      ![c].borrows = @ + (IF AfterAuth(FALSE) = "borrow"
                                            THEN 1 ELSE 0)]
  /\ UNCHANGED <<envVars, runPc, runErr, cur, lnClosed, maxConns, sem,
                 nextConnID, wg, active, pairs, snap, forced, timedOut, poolVars>>

\* respondBackendUnavailable: the read deadline (2 s) is set, one packet
\* is read within it and the ERR packet is written.
RespondErrPacket(c) ==
  /\ cl[c].st = "respond"
  /\ ~cl[c].closed
  /\ cl' = [cl EXCEPT ![c].errPackets = @ + 1, ![c].st = "closeClient",
                      ![c].reads = @ + 1,
                      ![c].pkt = writeErrPacket("mysql.ER_CON_COUNT_ERROR",
                                                "backend unavailable"),
                      ![c].ctxAtCall = FALSE]
  /\ UNCHANGED <<envVars, runPc, runErr, cur, lnClosed, maxConns, sem,
                 nextConnID, wg, active, pairs, snap, forced, timedOut, poolVars>>

\* (variant: the ERR packet is written although ReadPacket failed)
RespondNoReadWrites(c) ==
  /\ cl[c].st = "respond"
  /\ cl' = [cl EXCEPT ![c].st = "closeClient", ![c].ctxAtCall = FALSE,
                      ![c].reads = @ + 1, ![c].readErr = TRUE,
                      ![c].errPackets = @ + 1,
                      ![c].pkt = writeErrPacket("mysql.ER_CON_COUNT_ERROR",
                                                "backend unavailable")]
  /\ UNCHANGED <<envVars, runPc, runErr, cur, lnClosed, maxConns, sem,
                 nextConnID, wg, active, pairs, snap, forced, timedOut, poolVars>>

\* respondBackendUnavailable: ReadPacket fails (the deadline passes, the
\* peer hung up, the socket was closed): return without writing.
RespondNoRead(c) ==
  /\ cl[c].st = "respond"
  /\ cl' = [cl EXCEPT ![c].st = "closeClient", ![c].ctxAtCall = FALSE,
                      ![c].reads = @ + 1, ![c].readErr = TRUE]
  /\ UNCHANGED <<envVars, runPc, runErr, cur, lnClosed, maxConns, sem,
                 nextConnID, wg, active, pairs, snap, forced, timedOut, poolVars>>

\* trackBackend: attach the backend socket if the session is tracked;
\* then the pipe starts.  (ctxAtCall describes the Borrow call, which is
\* over by now.)
TrackBackend(c) ==
  /\ cl[c].st = "attach"
  /\ active' = {IF e.id = cl[c].id THEN [e EXCEPT !.backend = cl[c].backend]
                                   ELSE e : e \in active}
  /\ cl' = [cl EXCEPT ![c].st = "pipe", ![c].pipes = @ + 1,
                      ![c].ctxAtCall = FALSE]
  /\ UNCHANGED <<envVars, runPc, runErr, cur, lnClosed, maxConns, sem,
                 nextConnID, wg, pairs, snap, forced, timedOut, poolVars>>

\* pipe: the first copy direction finishes (EOF or error on either
\* socket); pipe closes the client and the backend socket.
PipeFirst(c) ==
  /\ cl[c].st = "pipe"
  /\ cl' = [cl EXCEPT ![c].closed = TRUE, ![c].st = "pipe2"]
  /\ sess' = CloseSession(sess, cl[c].backend, "pipe")
  /\ UNCHANGED <<envVars, runPc, runErr, cur, lnClosed, maxConns, sem,
                 nextConnID, wg, active, pairs, snap, forced, timedOut, started,
                 poolCap, conns, closed, fillStart, fillCalling, fillHolding,
                 nextSess, sessLimit>>

\* pipe: the second copy direction finishes; pipe returns.
PipeSecond(c) ==
  /\ cl[c].st = "pipe2"
  /\ cl' = [cl EXCEPT ![c].st = "closeBackend"]
  /\ UNCHANGED <<envVars, runPc, runErr, cur, lnClosed, maxConns, sem,
                 nextConnID, wg, active, pairs, snap, forced, timedOut, poolVars>>

\* (variant: no deferred backendConn.Close())
DeferCloseBackendMissing(c) ==
  /\ cl[c].st = "closeBackend"
  /\ cl' = [cl EXCEPT ![c].st = "closeClient"]
  /\ UNCHANGED <<envVars, runPc, runErr, cur, lnClosed, maxConns, sem,
                 nextConnID, wg, active, pairs, snap, forced, timedOut, poolVars>>

\* deferred backendConn.Close() (registered after a successful Borrow)
DeferCloseBackend(c) ==
  /\ cl[c].st = "closeBackend"
  /\ sess' = CloseSession(sess, cl[c].backend, "defer")
  /\ cl' = [cl EXCEPT ![c].st = "closeClient"]
  /\ UNCHANGED <<envVars, runPc, runErr, cur, lnClosed, maxConns, sem,
                 nextConnID, wg, active, pairs, snap, forced, timedOut, started,
                 poolCap, conns, closed, fillStart, fillCalling, fillHolding,
                 nextSess, sessLimit>>

\* deferred "connection closed" log and clientConn.Close()
DeferCloseClient(c) ==
  /\ cl[c].st = "closeClient"
  /\ cl' = [cl EXCEPT ![c].closed = TRUE, ![c].st = "untrack"]
  /\ UNCHANGED <<envVars, runPc, runErr, cur, lnClosed, maxConns, sem,
                 nextConnID, wg, active, pairs, snap, forced, timedOut, poolVars>>

\* (variant: handleConn does not defer p.untrack)
UntrackMissing(c) ==
  /\ cl[c].st = "untrack"
  /\ cl' = [cl EXCEPT ![c].st = "release"]
  /\ UNCHANGED <<envVars, runPc, runErr, cur, lnClosed, maxConns, sem,
                 nextConnID, wg, active, pairs, snap, forced, timedOut, poolVars>>

\* deferred p.untrack(connID)
Untrack(c) ==
  /\ cl[c].st = "untrack"
  /\ active' = {e \in active : e.id # cl[c].id}
  /\ cl' = [cl EXCEPT ![c].st = "release"]
  /\ UNCHANGED <<envVars, runPc, runErr, cur, lnClosed, maxConns, sem,
                 nextConnID, wg, pairs, snap, forced, timedOut, poolVars>>

\* (variant: the goroutine ends without receiving from p.sem)
ReleaseMissing(c) ==
  /\ cl[c].st = "release"
  /\ cl' = [cl EXCEPT ![c].st = "wgdone"]
  /\ UNCHANGED <<envVars, runPc, runErr, cur, lnClosed, maxConns, sem,
                 nextConnID, wg, active, pairs, snap, forced, timedOut, poolVars>>

\* the goroutine's deferred <-p.sem
Release(c) ==
  /\ cl[c].st = "release"
  /\ sem' = sem - 1
  /\ cl' = [cl EXCEPT ![c].rel = @ + 1, ![c].st = "wgdone"]
  /\ UNCHANGED <<envVars, runPc, runErr, cur, lnClosed, maxConns,
                 nextConnID, wg, active, pairs, snap, forced, timedOut, poolVars>>

\* the goroutine's deferred p.wg.Done(); the goroutine ends and what it
\* recorded about its connection goes with it
WgDone(c) ==
  /\ cl[c].st = "wgdone"
  /\ wg' = wg - 1
  /\ cl' = [cl EXCEPT ![c] = [NewClient EXCEPT !.st = "done",
                                              !.closed = cl[c].closed]]
  /\ UNCHANGED <<envVars, runPc, runErr, cur, lnClosed, maxConns, sem,
                 nextConnID, active, pairs, snap, forced, timedOut, poolVars>>

\* ------------------------------------------------------- specification
\* One proxy instance as main runs it: pool.Start, then Run.  Start is
\* called once and every later refill replaces a session taken out of the
\* FIFO, so fillOne always finds room (FillAlwaysHasRoom below) and its
\* FIFO-full branch, FillDiscard, cannot be taken here.

Next ==
  \/ Cancel
  \/ Tick
  \/ Start
  \/ FillSkipClosed
  \/ FillBegin
  \/ FillFactoryErr
  \/ FillFactoryOK
  \/ \E s \in Sessions : FillEnqueue(s)
  \/ CloseMark
  \/ CloseDrainOne
  \/ CloseDrainEnd
  \/ ListenOK
  \/ ListenFail
  \/ CloseListener
  \/ AcceptConn
  \/ AcceptBreak
  \/ SemAcquire
  \/ SemCancel
  \/ Dispatch
  \/ WaitDone
  \/ WaitTimeout
  \/ ForceSnapshot
  \/ ForceCloseNext
  \/ ForceDone
  \/ GraceDone
  \/ GraceTimeout
  \/ \E c \in Clients : Track(c)
  \/ \E c \in Clients, cred \in Credentials : AuthOK(c, cred)
  \/ \E c \in Clients, cred \in Credentials : AuthReject(c, cred)
  \/ \E c \in Clients : AuthIOError(c)
  \/ \E c \in Clients : BorrowCtxDone(c)
  \/ \E c \in Clients : BorrowExpired(c)
  \/ \E c \in Clients : BorrowPingFail(c)
  \/ \E c \in Clients : BorrowPooled(c)
  \/ \E c \in Clients : BorrowFactoryOK(c)
  \/ \E c \in Clients : BorrowFactoryErr(c)
  \/ \E c \in Clients : RespondErrPacket(c)
  \/ \E c \in Clients : RespondNoRead(c)
  \/ \E c \in Clients : TrackBackend(c)
  \/ \E c \in Clients : PipeFirst(c)
  \/ \E c \in Clients : PipeSecond(c)
  \/ \E c \in Clients : DeferCloseBackend(c)
  \/ \E c \in Clients : DeferCloseClient(c)
  \/ \E c \in Clients : Untrack(c)
  \/ \E c \in Clients : Release(c)
  \/ \E c \in Clients : WgDone(c)

Spec == Init /\ [][Next]_vars

\* ----------------------------------------------- the pool on its own
\* BackendPool driven through its API by arbitrary callers (as the pool's
\* unit tests drive it): Start, concurrent Borrow calls whose callers close
\* what they get, and Close at any moment.

InitPool ==
  /\ ctxDone = FALSE
  /\ outages = 0
  /\ runPc = "new"
  /\ runErr = "none"
  /\ cur = 0
  /\ lnClosed = FALSE
  /\ maxConns = EffectiveMaxConns(0)
  /\ sem = 0
  /\ nextConnID = 0
  /\ wg = 0
  /\ active = {}
  /\ pairs = {}
  /\ snap = {}
  /\ forced = 0
  /\ timedOut = FALSE
  /\ cl = [c \in Clients |-> NewClient]
  /\ started = FALSE
  /\ \E n \in 0..MaxPoolSize : poolCap = EffectivePoolSize(n)
  /\ conns = << >>
  /\ closed = FALSE
  /\ fillStart = 0
  /\ fillCalling = 0
  /\ fillHolding = {}
  /\ nextSess = 1
  /\ sessLimit = MaxSessions
  /\ sess = [s \in Sessions |-> NewSession]
  /\ TokenAtRest
  /\ PipeAtRest
  /\ CfgAtRest
  /\ ErrAtRest
  /\ SupAtRest

\* a caller invokes p.Borrow(ctx)
CallBorrow(c) ==
  /\ cl[c].st = "idle"
  /\ cl' = [cl EXCEPT ![c].st = "borrow", ![c].borrows = @ + 1,
                      ![c].ctxAtCall = ctxDone]
  /\ UNCHANGED <<envVars, runPc, runErr, cur, lnClosed, maxConns, sem,
                 nextConnID, wg, active, pairs, snap, forced, timedOut, poolVars>>

\* Borrow returned a session to the caller, who closes it when done and
\* may call Borrow again
CallerClose(c) ==
  /\ cl[c].st = "attach"
  /\ sess' = CloseSession(sess, cl[c].backend, "caller")
  /\ cl' = [cl EXCEPT ![c] = NewClient]
  /\ UNCHANGED <<envVars, runPc, runErr, cur, lnClosed, maxConns, sem,
                 nextConnID, wg, active, pairs, snap, forced, timedOut, started,
                 poolCap, conns, closed, fillStart, fillCalling, fillHolding,
                 nextSess, sessLimit>>

\* Borrow returned an error to the caller, who may call Borrow again
CallerFail(c) ==
  /\ cl[c].st = "respond"
  /\ cl' = [cl EXCEPT ![c] = NewClient]
  /\ UNCHANGED <<envVars, runPc, runErr, cur, lnClosed, maxConns, sem,
                 nextConnID, wg, active, pairs, snap, forced, timedOut, poolVars>>

\* the harness puts a session of its own making into the FIFO
\* (`p.conns <- &PooledConn{...}`), fresh or created long ago
Seed(age) ==
  /\ runPc = "new"
  /\ nextSess <= sessLimit
  /\ ChanHasRoom(conns, poolCap)
  /\ conns' = Append(conns, nextSess)
  /\ sess' = [sess EXCEPT ![nextSess].age = age]
  /\ nextSess' = nextSess + 1
  /\ UNCHANGED <<envVars, proxyVars, started, poolCap, closed, fillStart,
                 fillCalling, fillHolding, sessLimit>>

\* Close, under the write lock: the pool is closed already; return.
CloseAlready ==
  /\ runPc = "closing"
  /\ closed
  /\ runPc' = "skipped"
  /\ UNCHANGED <<envVars, runErr, cur, lnClosed, maxConns, sem, nextConnID,
                 wg, active, pairs, snap, forced, timedOut, cl, poolVars>>

\* the pool's owner invokes p.Close(), for the first time or again after
\* an earlier call has returned
CallClose ==
  /\ runPc \in {"new", "returned", "skipped"}
  /\ runPc' = "closing"
  /\ UNCHANGED <<envVars, runErr, cur, lnClosed, maxConns, sem, nextConnID,
                 wg, active, pairs, snap, forced, timedOut, cl, poolVars>>

NextPool ==
  \/ Cancel
  \/ Tick
  \/ Start
  \/ FillSkipClosed
  \/ FillBegin
  \/ FillFactoryErr
  \/ FillFactoryOK
  \/ \E s \in Sessions : FillEnqueue(s)
  \/ \E s \in Sessions : FillDiscard(s)
  \/ \E age \in {0, MaxLife + 1} : Seed(age)
  \/ CallClose
  \/ CloseAlready
  \/ CloseMark
  \/ CloseDrainOne
  \/ CloseDrainEnd
  \/ \E c \in Clients : CallBorrow(c)
  \/ \E c \in Clients : BorrowCtxDone(c)
  \/ \E c \in Clients : BorrowExpired(c)
  \/ \E c \in Clients : BorrowPingFail(c)
  \/ \E c \in Clients : BorrowPooled(c)
  \/ \E c \in Clients : BorrowFactoryOK(c)
  \/ \E c \in Clients : BorrowFactoryErr(c)
  \/ \E c \in Clients : CallerClose(c)
  \/ \E c \in Clients : CallerFail(c)

SpecPool == InitPool /\ [][NextPool]_vars

\* ------------------------------------- the pool under repeated Borrow
\* A pool that is never closed, whose backend fails a bounded number of
\* refill factory calls and succeeds ever after, and whose callers keep
\* borrowing and closing what they get.  Every goroutine that can take a
\* step eventually takes it.

\* the proxy of the pool's owner has not been run
ProxyAtRest ==
  /\ runPc = "new"
  /\ runErr = "none"
  /\ cur = 0
  /\ lnClosed = FALSE
  /\ maxConns = EffectiveMaxConns(0)
  /\ sem = 0
  /\ nextConnID = 0
  /\ wg = 0
  /\ active = {}
  /\ pairs = {}
  /\ snap = {}
  /\ forced = 0
  /\ timedOut = FALSE
  /\ cl = [c \in Clients |-> NewClient]

InitRefill ==
  /\ ctxDone = FALSE
  /\ outages \in 0..MaxOutages
  /\ ProxyAtRest
  /\ started = FALSE
  /\ \E n \in 0..MaxProxyPoolSize : poolCap = EffectivePoolSize(n)
  /\ conns = << >>
  /\ closed = FALSE
  /\ fillStart = 0
  /\ fillCalling = 0
  /\ fillHolding = {}
  /\ nextSess = 1
  /\ sessLimit = MaxSessions
  /\ sess = [s \in Sessions |-> NewSession]
  /\ TokenAtRest
  /\ PipeAtRest
  /\ CfgAtRest
  /\ ErrAtRest
  /\ SupAtRest

\* fillOne: the factory fails while the backend is still down; a warning is
\* logged and the task ends without retry.
FillOutage ==
  /\ fillCalling > 0
  /\ outages > 0
  /\ outages' = outages - 1
  /\ fillCalling' = fillCalling - 1
  /\ UNCHANGED <<ctxDone, tokenVars, pipeVars, supVars, cfgVars, errVars,
                 proxyVars, started,
                 poolCap, conns, closed, fillStart, fillHolding, nextSess,
                 sessLimit, sess>>

\* s is a session nobody refers to any more
Unreferenced(s) ==
  /\ s < nextSess
  /\ sess[s].closes > 0
  /\ s \notin Idle
  /\ \A c \in Clients : cl[c].backend # s

\* session t takes the name s
Renamed(x, t, s) == IF x = t THEN s ELSE x

\* A closed session nobody refers to is garbage; the factory can create a
\* session in its place.  (The newest session takes over its number, so
\* that the numbers in use stay 1..nextSess-1.)
Reclaim(s) ==
  /\ Unreferenced(s)
  /\ nextSess' = nextSess - 1
  /\ sess' = [sess EXCEPT ![s] = sess[nextSess - 1],
                          ![nextSess - 1] = NewSession]
  /\ conns' = [i \in DOMAIN conns |-> Renamed(conns[i], nextSess - 1, s)]
  /\ fillHolding' = {Renamed(x, nextSess - 1, s) : x \in fillHolding}
  /\ cl' = [c \in Clients |->
             [cl[c] EXCEPT !.backend = Renamed(@, nextSess - 1, s)]]
  /\ UNCHANGED <<envVars, runPc, runErr, cur, lnClosed, maxConns, sem,
                 nextConnID, wg, active, pairs, snap, forced, timedOut,
                 started, poolCap, closed, fillStart, fillCalling, sessLimit>>

\* the Borrow call of c has met fewer than MaxDiscards stale sessions
FewDiscards(c) == cl[c].stale + cl[c].aged < MaxDiscards

NextRefill ==
  \/ Tick
  \/ Start
  \/ FillBegin
  \/ FillOutage
  \/ FillFactoryOK
  \/ \E s \in Sessions : FillEnqueue(s)
  \/ \E s \in Sessions : Reclaim(s)
  \/ \E c \in Clients : CallBorrow(c)
  \/ \E c \in Clients : FewDiscards(c) /\ BorrowExpired(c)
  \/ \E c \in Clients : FewDiscards(c) /\ BorrowPingFail(c)
  \/ \E c \in Clients : BorrowPooled(c)
  \/ \E c \in Clients : BorrowFactoryOK(c)
  \/ \E c \in Clients : CallerClose(c)

\* the goroutines of the pool and of its callers are scheduled, and the
\* backend, once up, answers every factory call
FairRefill ==
  /\ WF_vars(Start)
  /\ WF_vars(FillBegin)
  /\ SF_vars(FillFactoryOK)
  /\ WF_vars(\E s \in Sessions : FillEnqueue(s))
  /\ WF_vars(\E s \in Sessions : Reclaim(s))
  /\ \A c \in Clients :
       /\ WF_vars(CallBorrow(c))
       /\ SF_vars(BorrowPooled(c))
       /\ SF_vars(BorrowFactoryOK(c))
       /\ WF_vars(CallerClose(c))

SpecRefill == InitRefill /\ [][NextRefill]_vars /\ FairRefill

\* ------------------------------------------------------- token.Cache
\* One Cache shared by goroutines that call Get (the backend factories of
\* the refill tasks and of the workers), each for a profile of its own,
\* while time passes.

\* a pool that has not been started
PoolAtRest ==
  /\ started = FALSE
  /\ poolCap = EffectivePoolSize(0)
  /\ conns = << >>
  /\ closed = FALSE
  /\ fillStart = 0
  /\ fillCalling = 0
  /\ fillHolding = {}
  /\ nextSess = 1
  /\ sessLimit = MaxSessions
  /\ sess = [s \in Sessions |-> NewSession]

\* token.New(refreshBefore, tokenTTL)
InitCache ==
  /\ ctxDone = FALSE
  /\ outages = 0
  /\ ProxyAtRest
  /\ PoolAtRest
  /\ tnow = 0
  /\ refreshBefore \in RefreshBefores
  /\ entries = [k \in CacheKeys |-> NoToken]
  /\ awsProviders = {}
  /\ loaded = [k \in ProviderKeys |-> 0]
  /\ builds = [k \in CacheKeys |-> 0]
  /\ gt = [g \in Getters |-> NewGetter]
  /\ PipeAtRest
  /\ CfgAtRest
  /\ ErrAtRest
  /\ SupAtRest

\* what a token.Cache step leaves alone
notToken == <<ctxDone, outages, pipeVars, supVars, cfgVars, errVars,
              proxyVars, poolVars>>

\* time passes
Advance ==
  /\ tnow < MaxNow
  /\ tnow' = tnow + 1
  /\ UNCHANGED <<notToken, refreshBefore, entries, awsProviders, loaded,
                 builds, gt>>

\* goroutine g may call Get for profile p: its first call, or a further
\* call for the profile it works for
MayCall(g, p) ==
  /\ gt[g].pc \in {"new", "done"}
  /\ gt[g].n < MaxGets
  /\ gt[g].n > 0 => p = gt[g].prof

\* the locals of a Get call that starts
Called(g, p) ==
  [NewGetter EXCEPT !.prof = p, !.n = gt[g].n + 1, !.prev = gt[g].res]

\* a Get call is inside the SDK-config loader or the token builder
Minting(h) == gt[h].pc \in {"load", "build"}

\* (variant: the mutex is held across the loader and the builder calls, so
\* the first locked section waits for them)
GetHitBlocked(g, p) ==
  /\ \A h \in Getters : ~Minting(h)
  /\ MayCall(g, p)
  /\ Fresh(entries[cacheKey(p)], tnow, refreshBefore)
  /\ gt' = [gt EXCEPT ![g] = [Called(g, p) EXCEPT !.pc = "done",
                                                  !.hit = TRUE,
                                                  !.res = entries[cacheKey(p)]]]
  /\ UNCHANGED <<notToken, tnow, refreshBefore, entries, awsProviders,
                 loaded, builds>>

\* Get, first locked section: the entry is present and far enough from
\* expiry; return it.
GetHit(g, p) ==
  /\ MayCall(g, p)
  /\ Fresh(entries[cacheKey(p)], tnow, refreshBefore)
  /\ gt' = [gt EXCEPT ![g] = [Called(g, p) EXCEPT !.pc = "done",
                                                  !.hit = TRUE,
                                                  !.res = entries[cacheKey(p)]]]
  /\ UNCHANGED <<notToken, tnow, refreshBefore, entries, awsProviders,
                 loaded, builds>>

\* Get, first locked section: no usable entry; go on to the provider.
GetMiss(g, p) ==
  /\ MayCall(g, p)
  /\ ~Fresh(entries[cacheKey(p)], tnow, refreshBefore)
  /\ gt' = [gt EXCEPT ![g] = [Called(g, p) EXCEPT !.pc = "provider"]]
  /\ UNCHANGED <<notToken, tnow, refreshBefore, entries, awsProviders,
                 loaded, builds>>

\* getOrInitProvider, first locked section: the provider is in the map.
ProviderFound(g) ==
  /\ gt[g].pc = "provider"
  /\ providerKey(gt[g].prof) \in awsProviders
  /\ gt' = [gt EXCEPT ![g].pc = "build"]
  /\ UNCHANGED <<notToken, tnow, refreshBefore, entries, awsProviders,
                 loaded, builds>>

\* getOrInitProvider, first locked section: the provider is not in the
\* map; the lock is released before the loader is called.
ProviderMissing(g) ==
  /\ gt[g].pc = "provider"
  /\ providerKey(gt[g].prof) \notin awsProviders
  /\ gt' = [gt EXCEPT ![g].pc = "load"]
  /\ UNCHANGED <<notToken, tnow, refreshBefore, entries, awsProviders,
                 loaded, builds>>

\* getOrInitProvider: loadDefaultAWSConfig returns a configuration.
LoadOK(g) ==
  /\ gt[g].pc = "load"
  /\ loaded' = [loaded EXCEPT ![providerKey(gt[g].prof)] = @ + 1]
  /\ gt' = [gt EXCEPT ![g].pc = "store", ![g].loads = @ + 1]
  /\ UNCHANGED <<notToken, tnow, refreshBefore, entries, awsProviders,
                 builds>>

\* (variant: a failed loader call is repeated)
LoadErrRetry(g) ==
  /\ gt[g].pc = "load"
  /\ gt[g].loads < 2
  /\ gt' = [gt EXCEPT ![g].loads = @ + 1]
  /\ UNCHANGED <<notToken, tnow, refreshBefore, entries, awsProviders,
                 loaded, builds>>

\* getOrInitProvider: loadDefaultAWSConfig fails; Get returns the error,
\* wrapped with "load aws config".
LoadErr(g) ==
  /\ gt[g].pc = "load"
  /\ gt' = [gt EXCEPT ![g].pc = "done", ![g].err = TRUE,
                      ![g].stage = "load aws config", ![g].loads = @ + 1]
  /\ UNCHANGED <<notToken, tnow, refreshBefore, entries, awsProviders,
                 loaded, builds>>

\* getOrInitProvider, second locked section: store the provider.
ProviderStore(g) ==
  /\ gt[g].pc = "store"
  /\ awsProviders' = awsProviders \cup {providerKey(gt[g].prof)}
  /\ gt' = [gt EXCEPT ![g].pc = "build"]
  /\ UNCHANGED <<notToken, tnow, refreshBefore, entries, loaded, builds>>

\* build: the token builder returns a new token.
BuildOK(g) ==
  /\ gt[g].pc = "build"
  /\ builds' = [builds EXCEPT ![cacheKey(gt[g].prof)] = @ + 1]
  /\ gt' = [gt EXCEPT ![g].pc = "put",
                      ![g].built = @ + 1,
                      ![g].tries = @ + 1,
                      ![g].res = Minted(gt[g].prof,
                                      builds[cacheKey(gt[g].prof)] + 1, tnow)]
  /\ UNCHANGED <<notToken, tnow, refreshBefore, entries, awsProviders, loaded>>

\* build: the token builder fails; Get returns the error, wrapped with
\* "build auth token".
BuildErr(g) ==
  /\ gt[g].pc = "build"
  /\ gt' = [gt EXCEPT ![g].pc = "done", ![g].err = TRUE,
                      ![g].stage = "build auth token", ![g].tries = @ + 1]
  /\ UNCHANGED <<notToken, tnow, refreshBefore, entries, awsProviders,
                 loaded, builds>>

\* Get, second locked section: store the new token and return it.
PutEntry(g) ==
  /\ gt[g].pc = "put"
  /\ entries' = [entries EXCEPT ![cacheKey(gt[g].prof)] = gt[g].res]
  /\ gt' = [gt EXCEPT ![g].pc = "done"]
  /\ UNCHANGED <<notToken, tnow, refreshBefore, awsProviders, loaded, builds>>

NextCache ==
  \/ Advance
  \/ \E g \in Getters, p \in Profiles : GetHit(g, p)
  \/ \E g \in Getters, p \in Profiles : GetMiss(g, p)
  \/ \E g \in Getters : ProviderFound(g)
  \/ \E g \in Getters : ProviderMissing(g)
  \/ \E g \in Getters : LoadOK(g)
  \/ \E g \in Getters : LoadErr(g)
  \/ \E g \in Getters : ProviderStore(g)
  \/ \E g \in Getters : BuildOK(g)
  \/ \E g \in Getters : BuildErr(g)
  \/ \E g \in Getters : PutEntry(g)

SpecCache == InitCache /\ [][NextCache]_vars

\* --------------------------------------------------------- Proxy.pipe
\* pipe on a pair of connections whose remote ends send data, stay silent,
\* fail or close as they like.

InitPipe ==
  /\ ctxDone = FALSE
  /\ outages = 0
  /\ ProxyAtRest
  /\ PoolAtRest
  /\ TokenAtRest
  /\ PipeAtRest
  /\ CfgAtRest
  /\ ErrAtRest
  /\ SupAtRest

\* what a step of pipe leaves alone
notPipe == <<ctxDone, outages, tokenVars, supVars, cfgVars, errVars,
             proxyVars, poolVars>>

\* pipe is called: resCh is made and both copy goroutines are started
PipeStart ==
  /\ pipePc = "off"
  /\ pipePc' = "first"
  /\ copyPc' = [d \in Dirs |-> "read"]
  /\ UNCHANGED <<notPipe, copyN, pipeUp, pipeDown, copyErr, sockClosed,
                 peerClosed, resCh, got, pipeRet>>

\* the remote end of connection x closes
PeerClose(x) ==
  /\ pipePc # "off"
  /\ ~peerClosed[x]
  /\ peerClosed' = [peerClosed EXCEPT ![x] = TRUE]
  /\ UNCHANGED <<notPipe, copyN, pipeUp, pipeDown, pipePc, copyPc, copyErr,
                 sockClosed, resCh, got,
                 pipeRet>>

\* io.Copy: Read on the source returns data sent by the remote end (which
\* sends MaxBytes chunks at most)
CopyReadData(d) ==
  /\ copyPc[d] = "read"
  /\ ~sockClosed[Src(d)]
  /\ ~peerClosed[Src(d)]
  /\ copyN[d] < MaxBytes
  /\ copyPc' = [copyPc EXCEPT ![d] = "write"]
  /\ UNCHANGED <<notPipe, copyN, pipeUp, pipeDown, pipePc, copyErr,
                 sockClosed, peerClosed, resCh, got,
                 pipeRet>>

\* io.Copy: Read on the source meets the remote end's close: EOF (io.Copy
\* returns nil) or a connection reset
CopyReadEOF(d, err) ==
  /\ copyPc[d] = "read"
  /\ ~sockClosed[Src(d)]
  /\ peerClosed[Src(d)]
  /\ err \in {"nil", "connection reset by peer"}
  /\ copyPc' = [copyPc EXCEPT ![d] = "send"]
  /\ copyErr' = [copyErr EXCEPT ![d] = err]
  /\ UNCHANGED <<notPipe, copyN, pipeUp, pipeDown, pipePc, sockClosed,
                 peerClosed, resCh, got, pipeRet>>

\* io.Copy: Read on a source that has been closed locally fails
CopyReadClosed(d) ==
  /\ copyPc[d] = "read"
  /\ sockClosed[Src(d)]
  /\ copyPc' = [copyPc EXCEPT ![d] = "send"]
  /\ copyErr' = [copyErr EXCEPT ![d] = "use of closed network connection"]
  /\ UNCHANGED <<notPipe, copyN, pipeUp, pipeDown, pipePc, sockClosed,
                 peerClosed, resCh, got, pipeRet>>

\* io.Copy: Read on the open source fails for another reason
CopyReadFail(d) ==
  /\ copyPc[d] = "read"
  /\ ~sockClosed[Src(d)]
  /\ copyPc' = [copyPc EXCEPT ![d] = "send"]
  /\ copyErr' = [copyErr EXCEPT ![d] = "unexpected protocol failure"]
  /\ UNCHANGED <<notPipe, copyN, pipeUp, pipeDown, pipePc, sockClosed,
                 peerClosed, resCh, got, pipeRet>>

\* io.Copy: Write to the destination succeeds and is added to the count
CopyWriteOK(d) ==
  /\ copyPc[d] = "write"
  /\ ~sockClosed[Dst(d)]
  /\ ~peerClosed[Dst(d)]
  /\ copyPc' = [copyPc EXCEPT ![d] = "read"]
  /\ copyN' = [copyN EXCEPT ![d] = @ + 1]
  /\ UNCHANGED <<notPipe, pipeUp, pipeDown, pipePc, copyErr, sockClosed,
                 peerClosed, resCh, got,
                 pipeRet>>

\* io.Copy: Write to a destination closed locally or by its remote end fails
CopyWriteFail(d) ==
  /\ copyPc[d] = "write"
  /\ sockClosed[Dst(d)] \/ peerClosed[Dst(d)]
  /\ copyPc' = [copyPc EXCEPT ![d] = "send"]
  /\ copyErr' = [copyErr EXCEPT ![d] =
                   IF sockClosed[Dst(d)]
                     THEN "use of closed network connection"
                     ELSE "broken pipe"]
  /\ UNCHANGED <<notPipe, copyN, pipeUp, pipeDown, pipePc, sockClosed,
                 peerClosed, resCh, got, pipeRet>>

\* the copy goroutine sends its result, count and error, on resCh
\* (capacity 2) and ends
CopySend(d) ==
  /\ copyPc[d] = "send"
  /\ resCh' = Append(resCh, [n |-> copyN[d], err |-> copyErr[d]])
  /\ copyPc' = [copyPc EXCEPT ![d] = "end"]
  /\ UNCHANGED <<notPipe, copyN, pipeUp, pipeDown, pipePc, copyErr,
                 sockClosed, peerClosed, got, pipeRet>>

\* first := <-resCh
PipeRecvFirst ==
  /\ pipePc = "first"
  /\ resCh # << >>
  /\ got' = Append(got, Head(resCh))
  /\ resCh' = Tail(resCh)
  /\ pipePc' = "closeClient"
  /\ UNCHANGED <<notPipe, copyN, pipeUp, pipeDown, copyPc, copyErr,
                 sockClosed, peerClosed, pipeRet>>

\* (variant: the client connection is left open)
PipeCloseClientSkipped ==
  /\ pipePc = "closeClient"
  /\ pipePc' = "closeBackend"
  /\ UNCHANGED <<notPipe, copyN, pipeUp, pipeDown, copyPc, copyErr,
                 sockClosed, peerClosed, resCh, got,
                 pipeRet>>

\* _ = client.Close()
PipeCloseClient ==
  /\ pipePc = "closeClient"
  /\ sockClosed' = [sockClosed EXCEPT !["client"] = TRUE]
  /\ pipePc' = "closeBackend"
  /\ UNCHANGED <<notPipe, copyN, pipeUp, pipeDown, copyPc, copyErr,
                 peerClosed, resCh, got, pipeRet>>

\* _ = backend.Close()
PipeCloseBackend ==
  /\ pipePc = "closeBackend"
  /\ sockClosed' = [sockClosed EXCEPT !["backend"] = TRUE]
  /\ pipePc' = "second"
  /\ UNCHANGED <<notPipe, copyN, pipeUp, pipeDown, copyPc, copyErr,
                 peerClosed, resCh, got, pipeRet>>

\* second := <-resCh, and the return: up is first.n, down is second.n
PipeRecvSecond ==
  /\ pipePc = "second"
  /\ resCh # << >>
  /\ got' = Append(got, Head(resCh))
  /\ resCh' = Tail(resCh)
  /\ pipeUp' = got[1].n
  /\ pipeDown' = Head(resCh).n
  /\ pipeRet' = PipeResult(got[1].err, Head(resCh).err)
  /\ pipePc' = "returned"
  /\ UNCHANGED <<notPipe, copyN, copyPc, copyErr, sockClosed, peerClosed>>

NextPipe ==
  \/ PipeStart
  \/ \E x \in Socks : PeerClose(x)
  \/ \E d \in Dirs : CopyReadData(d)
  \/ \E d \in Dirs, err \in CopyErrors : CopyReadEOF(d, err)
  \/ \E d \in Dirs : CopyReadClosed(d)
  \/ \E d \in Dirs : CopyReadFail(d)
  \/ \E d \in Dirs : CopyWriteOK(d)
  \/ \E d \in Dirs : CopyWriteFail(d)
  \/ \E d \in Dirs : CopySend(d)
  \/ PipeRecvFirst
  \/ PipeCloseClient
  \/ PipeCloseBackend
  \/ PipeRecvSecond

\* the goroutines of pipe are scheduled; a Read or a Write that can return
\* because of a close returns, and a Write to an open connection whose
\* remote end is open completes.  Nothing obliges a remote end to send, to
\* fail or to close.
FairPipe ==
  /\ WF_vars(PipeStart)
  /\ WF_vars(PipeRecvFirst)
  /\ WF_vars(PipeCloseClient)
  /\ WF_vars(PipeCloseBackend)
  /\ WF_vars(PipeRecvSecond)
  /\ \A d \in Dirs :
       /\ WF_vars(\E err \in CopyErrors : CopyReadEOF(d, err))
       /\ WF_vars(CopyReadClosed(d))
       /\ WF_vars(CopyWriteOK(d))
       /\ WF_vars(CopyWriteFail(d))
       /\ WF_vars(CopySend(d))

SpecPipe == InitPipe /\ [][NextPipe]_vars /\ FairPipe

\* ------------------------------------------- main: the supervisor
\* main from signalContext on: one goroutine per selected profile runs
\* Proxy.Run, a goroutine closes done once all of them have ended, and
\* main waits for an error or for done.  Run is taken by its results: an
\* error when net.Listen fails, nil only after ctx has been cancelled.

InitMain ==
  /\ ctxDone = FALSE
  /\ outages = 0
  /\ TokenAtRest
  /\ PipeAtRest
  /\ CfgAtRest
  /\ ErrAtRest
  /\ ProxyAtRest
  /\ PoolAtRest
  /\ mainPc = "loop"
  /\ exitCode = NoExit
  /\ selected \in 1..MaxInstances
  /\ inst = [i \in Instances |-> NewInstance]
  /\ errCh = 0
  /\ mainWg = 0
  /\ waiterPc = "none"
  /\ sigPc = "first"

notSup == <<outages, tokenVars, pipeVars, cfgVars, errVars, proxyVars,
            poolVars>>

\* the instance the loop over selected creates next (0: none is left)
NextInstance ==
  IF \E i \in 1..selected : inst[i].pc = "none"
    THEN CHOOSE i \in 1..selected :
           inst[i].pc = "none" /\ \A j \in 1..(i - 1) : inst[j].pc # "none"
    ELSE 0

\* os.Exit: the process ends, with every goroutine in it
Exit(code) ==
  /\ exitCode' = code
  /\ mainPc' = "exited"

\* stop(): signal.Stop(sigCh); cancel()
Stop ==
  /\ sigPc' = "stopped"
  /\ ctxDone' = TRUE

\* a receive case of main's select becomes ready: if main is blocked in
\* the select it is woken for that case
Wake(case) == IF mainPc = "blocked" THEN case ELSE mainPc

\* loop body: NewBackendFactory fails: os.Exit(1)
FactoryInitFail ==
  /\ mainPc = "loop"
  /\ NextInstance # 0
  /\ Exit(1)
  /\ UNCHANGED <<ctxDone, selected, inst, errCh, mainWg, waiterPc, sigPc,
                 notSup>>

\* loop body: the pool is created and pool.Start launches its prewarm
\* refills; the proxy is created, wg.Add(1), the goroutine that calls Run
\* is started
SpawnInstance ==
  /\ mainPc = "loop"
  /\ NextInstance # 0
  /\ mainWg' = mainWg + 1
  /\ inst' = [inst EXCEPT ![NextInstance].pc = "run",
                          ![NextInstance].prewarm = TRUE]
  /\ UNCHANGED <<ctxDone, mainPc, exitCode, selected, errCh, waiterPc, sigPc,
                 notSup>>

\* after the loop: done is made, the goroutine waiting for wg is started
\* and main arrives at the select
SpawnWaiter ==
  /\ mainPc = "loop"
  /\ NextInstance = 0
  /\ waiterPc' = "wait"
  /\ mainPc' = "select"
  /\ UNCHANGED <<ctxDone, exitCode, selected, inst, errCh, mainWg, sigPc,
                 notSup>>

\* px.Run(ctx): net.Listen succeeds, the instance's listener is bound
InstListenOK(i) ==
  /\ mainPc # "exited"
  /\ inst[i].pc = "run"
  /\ ~inst[i].bound
  /\ inst' = [inst EXCEPT ![i].bound = TRUE]
  /\ UNCHANGED <<ctxDone, mainPc, exitCode, selected, errCh, mainWg,
                 waiterPc, sigPc, notSup>>

\* px.Run(ctx): the accept loop accepts a client
InstAccept(i) ==
  /\ mainPc # "exited"
  /\ inst[i].pc = "run"
  /\ inst[i].bound
  /\ ~inst[i].accepted
  /\ inst' = [inst EXCEPT ![i].accepted = TRUE]
  /\ UNCHANGED <<ctxDone, mainPc, exitCode, selected, errCh, mainWg,
                 waiterPc, sigPc, notSup>>

\* px.Run(ctx) returns an error (net.Listen failed)
InstRunErr(i) ==
  /\ mainPc # "exited"
  /\ inst[i].pc = "run"
  /\ ~inst[i].bound
  /\ inst' = [inst EXCEPT ![i].pc = "send", ![i].ret = "err"]
  /\ UNCHANGED <<ctxDone, mainPc, exitCode, selected, errCh, mainWg,
                 waiterPc, sigPc, notSup>>

\* px.Run(ctx) returns nil: ctx was cancelled and the instance shut down
InstRunNil(i) ==
  /\ mainPc # "exited"
  /\ inst[i].pc = "run"
  /\ inst[i].bound
  /\ ctxDone
  /\ inst' = [inst EXCEPT ![i].pc = "wgdone", ![i].ret = "nil"]
  /\ UNCHANGED <<ctxDone, mainPc, exitCode, selected, errCh, mainWg,
                 waiterPc, sigPc, notSup>>

\* errCh <- err (the buffer has room for every instance); a main blocked
\* in the select receives it at once
InstSendErr(i) ==
  /\ mainPc # "exited"
  /\ inst[i].pc = "send"
  /\ errCh' = IF mainPc = "blocked" THEN errCh ELSE errCh + 1
  /\ mainPc' = Wake("recvErr")
  /\ inst' = [inst EXCEPT ![i].pc = "stop"]
  /\ UNCHANGED <<ctxDone, exitCode, selected, mainWg, waiterPc, sigPc,
                 notSup>>

\* stop() after the send
InstStop(i) ==
  /\ mainPc # "exited"
  /\ inst[i].pc = "stop"
  /\ Stop
  /\ inst' = [inst EXCEPT ![i].pc = "wgdone"]
  /\ UNCHANGED <<mainPc, exitCode, selected, errCh, mainWg, waiterPc,
                 notSup>>

\* the goroutine's deferred wg.Done()
InstWgDone(i) ==
  /\ mainPc # "exited"
  /\ inst[i].pc = "wgdone"
  /\ mainWg' = mainWg - 1
  /\ inst' = [inst EXCEPT ![i].pc = "end"]
  /\ UNCHANGED <<ctxDone, mainPc, exitCode, selected, errCh, waiterPc,
                 sigPc, notSup>>

\* wg.Wait() returns, the deferred close(done) runs; a main blocked in
\* the select is woken
WaiterClose ==
  /\ mainPc # "exited"
  /\ waiterPc = "wait"
  /\ mainWg = 0
  /\ waiterPc' = "end"
  /\ mainPc' = Wake("recvDone")
  /\ UNCHANGED <<ctxDone, exitCode, selected, inst, errCh, mainWg, sigPc,
                 notSup>>

\* select: an error is in errCh; this case is taken (where done is closed
\* too, it is one of the two the runtime picks from)
MainSelectErr ==
  /\ mainPc = "select"
  /\ errCh > 0
  /\ errCh' = errCh - 1
  /\ mainPc' = "recvErr"
  /\ UNCHANGED <<ctxDone, exitCode, selected, inst, mainWg, waiterPc, sigPc,
                 notSup>>

\* select: done is closed; this case is taken (where errCh holds an
\* error too, it is one of the two the runtime picks from)
MainSelectDone ==
  /\ mainPc = "select"
  /\ waiterPc = "end"
  /\ mainPc' = "recvDone"
  /\ UNCHANGED <<ctxDone, exitCode, selected, inst, errCh, mainWg, waiterPc,
                 sigPc, notSup>>

\* select: no case is ready; main blocks
MainBlock ==
  /\ mainPc = "select"
  /\ errCh = 0
  /\ waiterPc # "end"
  /\ mainPc' = "blocked"
  /\ UNCHANGED <<ctxDone, exitCode, selected, inst, errCh, mainWg, waiterPc,
                 sigPc, notSup>>

\* case err := <-errCh: the error is logged; os.Exit(1)
MainExitErr ==
  /\ mainPc = "recvErr"
  /\ Exit(1)
  /\ UNCHANGED <<ctxDone, selected, inst, errCh, mainWg, waiterPc, sigPc,
                 notSup>>

\* case <-done: return; the deferred stop() runs and the process ends
\* with code 0
MainReturn ==
  /\ mainPc = "recvDone"
  /\ Stop
  /\ Exit(0)
  /\ UNCHANGED <<selected, inst, errCh, mainWg, waiterPc, notSup>>

\* (variant: the first signal already ends the process)
Signal1Exits ==
  /\ mainPc # "exited"
  /\ sigPc = "first"
  /\ sigPc' = "second"
  /\ Exit(130)
  /\ UNCHANGED <<ctxDone, selected, inst, errCh, mainWg, waiterPc, notSup>>

\* signalContext's goroutine: the first SIGINT or SIGTERM: cancel()
Signal1 ==
  /\ mainPc # "exited"
  /\ sigPc = "first"
  /\ sigPc' = "second"
  /\ ctxDone' = TRUE
  /\ UNCHANGED <<mainPc, exitCode, selected, inst, errCh, mainWg, waiterPc,
                 notSup>>

\* signalContext's goroutine: the second signal: os.Exit(130)
Signal2 ==
  /\ mainPc # "exited"
  /\ sigPc = "second"
  /\ Exit(130)
  /\ UNCHANGED <<ctxDone, selected, inst, errCh, mainWg, waiterPc, sigPc,
                 notSup>>

NextMain ==
  \/ FactoryInitFail
  \/ SpawnInstance
  \/ SpawnWaiter
  \/ \E i \in Instances : InstListenOK(i)
  \/ \E i \in Instances : InstAccept(i)
  \/ \E i \in Instances : InstRunErr(i)
  \/ \E i \in Instances : InstRunNil(i)
  \/ \E i \in Instances : InstSendErr(i)
  \/ \E i \in Instances : InstStop(i)
  \/ \E i \in Instances : InstWgDone(i)
  \/ WaiterClose
  \/ MainSelectErr
  \/ MainSelectDone
  \/ MainBlock
  \/ MainExitErr
  \/ MainReturn
  \/ Signal1
  \/ Signal2

SpecMain == InitMain /\ [][NextMain]_vars

\* --------------------------------- main: flags, configuration, launch
\* main for one profile: the --max-conns check, config.Load (defaults,
\* then validateProfile), ValidateRuntime, and the launch of the instance
\* with the resolved limit.

InitCfg ==
  /\ ctxDone = FALSE
  /\ outages = 0
  /\ TokenAtRest
  /\ PipeAtRest
  /\ SupAtRest
  /\ ErrAtRest
  /\ ProxyAtRest
  /\ PoolAtRest
  /\ cfgPc = "flags"
  /\ cfgProf \in ProfileInputs
  /\ cfgFlag \in MaxConnsValues
  /\ cfgAllow \in BOOLEAN
  /\ cfgErr = "nil"
  /\ cfgSem = 0

notCfg == <<ctxDone, outages, tokenVars, pipeVars, supVars, errVars,
            proxyVars, poolVars>>

\* main stops with an error: os.Exit(1)
Reject(why) ==
  /\ cfgErr' = why
  /\ cfgPc' = "rejected"

\* the --max-conns override is above the hard limit
FlagTooHigh ==
  /\ cfgPc = "flags"
  /\ cfgFlag > maxConnsHardLimit
  /\ Reject("max-conns override too high")
  /\ UNCHANGED <<notCfg, cfgProf, cfgFlag, cfgAllow, cfgSem>>

FlagOK ==
  /\ cfgPc = "flags"
  /\ ~(cfgFlag > maxConnsHardLimit)
  /\ cfgPc' = "load"
  /\ UNCHANGED <<notCfg, cfgProf, cfgFlag, cfgAllow, cfgErr, cfgSem>>

\* config.Load: applyDefaults, then validateProfile fails
ConfigLoadReject ==
  /\ cfgPc = "load"
  /\ validateProfile(applyDefaults(cfgProf)) # "nil"
  /\ cfgProf' = applyDefaults(cfgProf)
  /\ Reject(validateProfile(applyDefaults(cfgProf)))
  /\ UNCHANGED <<notCfg, cfgFlag, cfgAllow, cfgSem>>

\* config.Load: applyDefaults, then validateProfile passes
ConfigLoadOK ==
  /\ cfgPc = "load"
  /\ validateProfile(applyDefaults(cfgProf)) = "nil"
  /\ cfgProf' = applyDefaults(cfgProf)
  /\ cfgPc' = "runtime"
  /\ UNCHANGED <<notCfg, cfgFlag, cfgAllow, cfgErr, cfgSem>>

\* prof.ValidateRuntime fails
RuntimeReject ==
  /\ cfgPc = "runtime"
  /\ ValidateRuntime(cfgProf, cfgAllow) # "nil"
  /\ Reject(ValidateRuntime(cfgProf, cfgAllow))
  /\ UNCHANGED <<notCfg, cfgProf, cfgFlag, cfgAllow, cfgSem>>

\* prof.ValidateRuntime passes
RuntimeOK ==
  /\ cfgPc = "runtime"
  /\ ValidateRuntime(cfgProf, cfgAllow) = "nil"
  /\ cfgPc' = "launch"
  /\ UNCHANGED <<notCfg, cfgProf, cfgFlag, cfgAllow, cfgErr, cfgSem>>

\* the instance is made with the resolved limit (proxy.New makes p.sem)
\* and started on the profile's listen address
Launch ==
  /\ cfgPc = "launch"
  /\ cfgSem' = EffectiveMaxConns(resolvedMaxConns(cfgProf.MaxConns, cfgFlag))
  /\ cfgPc' = "running"
  /\ UNCHANGED <<notCfg, cfgProf, cfgFlag, cfgAllow, cfgErr>>

NextCfg ==
  \/ FlagTooHigh
  \/ FlagOK
  \/ ConfigLoadReject
  \/ ConfigLoadOK
  \/ RuntimeReject
  \/ RuntimeOK
  \/ Launch

SpecCfg == InitCfg /\ [][NextCfg]_vars

\* ------------------------------------------------ isConnCloseErr
\* isConnCloseErr applied to one error.

InitErr ==
  /\ ctxDone = FALSE
  /\ outages = 0
  /\ TokenAtRest
  /\ PipeAtRest
  /\ SupAtRest
  /\ CfgAtRest
  /\ ProxyAtRest
  /\ PoolAtRest
  /\ errIn \in ErrInputs
  /\ errOut = "none"

CallIsConnCloseErr ==
  /\ errOut = "none"
  /\ errOut' = IF isConnCloseErr(errIn) THEN "true" ELSE "false"
  /\ UNCHANGED <<ctxDone, outages, tokenVars, pipeVars, supVars, cfgVars,
                 errIn, proxyVars, poolVars>>

NextErr == CallIsConnCloseErr

SpecErr == InitErr /\ [][NextErr]_vars

\* =============================================================== claims

\* workers that were dispatched and have not finished their teardown: they
\* hold the slot acquired for them
SlotHeld == {"spawned", "auth", "borrow", "respond", "attach", "pipe",
             "pipe2", "closeBackend", "closeClient", "untrack", "release"}
\* workers past Borrow's successful return, before the scoped release
BeforeRelease == {"attach", "pipe", "pipe2", "closeBackend"}
\* workers past the scoped release of the backend session
AfterRelease == {"closeClient", "untrack", "release", "wgdone"}
Holders == {c \in Clients : cl[c].st \in SlotHeld}
GoodCred == <<ProxyUser, ProxyPassword>>

\* C1: the number of workers holding a semaphore slot never exceeds the
\* effective max-conns capacity of the proxy instance.
C1_SlotsWithinMaxConns == Cardinality(Holders) <= maxConns

\* C1 witness: the capacity is reached (one worker piping, max-conns 1)
\* while the accept loop holds a further connection waiting for a slot.
C1_Witness ==
  /\ maxConns = 1
  /\ runPc = "sem"
  /\ \E c \in Clients : cl[c].st = "pipe"

\* C2: every dispatched worker acquired exactly one slot before dispatch and
\* has released exactly one when it exits, whatever its exit path; the
\* semaphore holds exactly the slots of the workers still running (plus the
\* one just acquired for a connection about to be dispatched), hence zero
\* once all workers have exited.
C2_OneSlotPerWorker ==
  /\ \A c \in Clients :
       /\ cl[c].st \in SlotHeld => cl[c].acq = 1 /\ cl[c].rel = 0
       /\ cl[c].st = "wgdone" => cl[c].acq = 1 /\ cl[c].rel = 1
       /\ cl[c].st \in {"idle", "rejected"} => cl[c].acq = 0 /\ cl[c].rel = 0
  /\ sem = Cardinality(Holders) + (IF runPc = "dispatch" THEN 1 ELSE 0)
  /\ (Holders = {} /\ runPc # "dispatch") => sem = 0

\* C2 witness: a worker that went through the pipe has released its slot
\* after an earlier worker had already exited; the semaphore is empty.
C2_Witness ==
  /\ sem = 0
  /\ cl[1].st = "done"
  /\ cl[2].st = "wgdone" /\ cl[2].pipes = 1 /\ cl[2].rel = 1

\* C3 (as claimed): when Run has returned after the cancellation, every
\* client socket the proxy accepted has been closed.
C3_SocketsClosedAtReturn ==
  (runPc = "returned" /\ runErr = "nil" /\ ctxDone)
    => \A c \in Clients : cl[c].st # "idle" => cl[c].closed

\* C4 (as claimed): after the cancellation Run returns only when every
\* dispatched worker has completed or the shutdownTimeout timer has fired.
C4_ReturnAfterDrainOrTimeout ==
  (runPc = "returned" /\ runErr = "nil" /\ ctxDone)
    => \/ timedOut
       \/ \A c \in Clients : cl[c].st \notin (SlotHeld \cup {"wgdone"})

\* C5: Borrow (and with it the backend factory) is invoked for a connection
\* only after that connection passed the local handshake with the profile's
\* proxy user and password, and the pipe starts only after Borrow returned
\* a session to that worker.
C5_AuthBeforeBorrowBeforePipe ==
  \A c \in Clients :
    /\ (\/ cl[c].st \in {"borrow", "respond"} \cup BeforeRelease
        \/ cl[c].borrows > 0
        \/ cl[c].factoryCalls > 0
        \/ cl[c].backend # NoSession)
         => cl[c].authed /\ cl[c].cred = GoodCred /\ cl[c].borrows = 1
    /\ (cl[c].st \in {"pipe", "pipe2"} \/ cl[c].pipes > 0)
         => /\ cl[c].backend # NoSession
            /\ sess[cl[c].backend].handed = 1

\* C5 witness: one connection is piping while another failed the handshake
\* and is being torn down without ever having entered Borrow.
C5_Witness ==
  \E c, d \in Clients :
    /\ cl[c].st = "pipe"
    /\ cl[d].st = "untrack" /\ ~cl[d].authed /\ cl[d].borrows = 0

\* C6: a session returned by Borrow is never in the pool again: neither in
\* the FIFO nor in the hands of a refill task about to enqueue it.
C6_NeverRepooled ==
  \A s \in Sessions : sess[s].handed > 0 => s \notin Idle

\* C6 witness: a caller holds a session that came out of the FIFO while the
\* FIFO has been filled again.
C6_Witness ==
  \E c \in Clients :
    /\ cl[c].st = "attach"
    /\ cl[c].factoryCalls = 0
    /\ conns # << >>

\* C7 (as claimed): the close operation of a borrowed session is invoked
\* exactly once: never a second time, and once by the time the worker has
\* run its scoped release.
C7_ClosedExactlyOnce ==
  \A c \in Clients :
    cl[c].backend # NoSession =>
      /\ sess[cl[c].backend].closes <= 1
      /\ cl[c].st \in AfterRelease => sess[cl[c].backend].closes = 1

\* C7 (amended): the worker's scoped release closes the borrowed session
\* exactly once, on every exit path after a successful Borrow and only after
\* the pipe returned; the pool never closes it.  The close operation itself
\* is invoked two or three times in all: by the pipe, by the scoped release
\* and, if it ran meanwhile, by force-close.
C7_ClosedByScopedRelease ==
  \A c \in Clients :
    cl[c].backend # NoSession =>
      /\ ~sess[cl[c].backend].pool
      /\ cl[c].st \in BeforeRelease => sess[cl[c].backend].deferred = 0
      /\ cl[c].st = "closeBackend" => sess[cl[c].backend].closes \in {1, 2}
      /\ cl[c].st \in AfterRelease =>
           /\ sess[cl[c].backend].deferred = 1
           /\ sess[cl[c].backend].closes \in {2, 3}

\* C7 witness: a worker has run its scoped release on a session that the
\* pipe and force-close had closed before.
C7_Witness ==
  \E c \in Clients :
    /\ cl[c].st = "closeClient"
    /\ cl[c].backend # NoSession
    /\ sess[cl[c].backend].closes = 3

\* C8: each pooled session is handed to at most one party: never to two
\* borrowers, and never both to a borrower and to a close by the pool
\* (Close's drain, a stale discard, a discard by a refill task).
C8_HandedToOneParty ==
  \A s \in Sessions :
    /\ sess[s].handed <= 1
    /\ ~(sess[s].handed >= 1 /\ sess[s].pool)

\* C8 witness: Close is draining while one caller holds a session taken
\* from the FIFO and another caller is inside Borrow.
C8_Witness ==
  \E c, d \in Clients :
    /\ runPc = "draining"
    /\ cl[c].st = "attach" /\ cl[c].factoryCalls = 0
    /\ cl[d].st = "borrow"

\* C9 (as claimed): a Borrow call logs the summary line at most once, and
\* not at all iff it discarded no stale session (too old, or failing Ping).
C9_SummaryIffStaleDiscarded ==
  \A c \in Clients :
    cl[c].st \in {"attach", "respond"} =>
      /\ cl[c].summaries \in {0, 1}
      /\ (cl[c].summaries = 0) <=> (cl[c].stale + cl[c].aged = 0)

\* C10 (as claimed): a Borrow call that returns a session has started at
\* least one refill task.
C10_BorrowStartsRefill ==
  \A c \in Clients : cl[c].st = "attach" => cl[c].refills >= 1

\* C11 (as claimed): in a pool that is not closed and whose factory succeeds
\* from some point on (no outage left), whenever fewer than N sessions are
\* idle, the refills started by the Borrow calls that follow eventually
\* bring the number of idle sessions back to N = cap(p.conns).
C11_RefillsRestoreTarget ==
  (started /\ outages = 0 /\ Len(conns) < poolCap) ~> (Len(conns) = poolCap)

\* C12: a Borrow call that finds a session older than maxLife at the head
\* of the FIFO (in particular as the only idle session) closes that session,
\* takes it out of the FIFO, starts a refill task and goes on; the session
\* it returns in the end is another one, never closed and handed to nobody
\* else, and at least one refill task has been started by then.
C12_ExpiredReplaced ==
  /\ [](\A c \in Clients :
          (cl[c].st = "attach" /\ cl[c].aged > 0) =>
             /\ cl[c].refills >= 1
             /\ cl[c].backend # NoSession
             /\ sess[cl[c].backend].closes = 0
             /\ ~sess[cl[c].backend].pool
             /\ sess[cl[c].backend].handed = 1)
  /\ [][\A c \in Clients :
          (/\ cl[c].st = "borrow"
           /\ cl'[c] # cl[c]
           /\ cl'[c].st # "respond"
           /\ conns # << >>
           /\ sess[Head(conns)].age > MaxLife)
            => /\ cl'[c].st = "borrow"
               /\ cl'[c].backend = NoSession
               /\ sess'[Head(conns)].closes = sess[Head(conns)].closes + 1
               /\ conns' = Tail(conns)
               /\ fillStart' = fillStart + 1]_vars

\* C12 witness: the FIFO held one session, older than maxLife; Borrow closed
\* it, started one refill and returned a session made by the factory.
C12_Witness ==
  \E c \in Clients, s \in Sessions :
    /\ cl[c].st = "attach"
    /\ cl[c].aged = 1 /\ cl[c].refills = 1 /\ cl[c].factoryCalls = 1
    /\ s # cl[c].backend
    /\ sess[s].pool /\ sess[s].closes = 1
    /\ poolCap = 1

\* C13 (as claimed): a Borrow call entered with a cancelled context returns
\* no session (it returns ctx.Err()), whatever the FIFO holds.
C13_CancelledBorrowFails ==
  \A c \in Clients :
    cl[c].ctxAtCall => (cl[c].st # "attach" /\ cl[c].backend = NoSession)

\* the other goroutines have made no Get call for the cache key of g
AloneOnKey(g) ==
  \A h \in Getters \ {g} :
    gt[h].n = 0 \/ cacheKey(gt[h].prof) # cacheKey(gt[g].prof)

\* C14: a Get call that finds an entry for its key with
\* ExpiresAt - now > refreshBefore returns that entry as it is, and neither
\* the token builder nor the configuration loader is invoked and the cache
\* is not written; hence the second of two successive Get calls for a key
\* (no other caller using that key), made while the entry is that far from
\* expiry, returns the token of the first, with one builder invocation in
\* all.
C14_FreshEntryReturned ==
  /\ [][\A g \in Getters :
          (/\ gt'[g].n = gt[g].n + 1
           /\ entries[cacheKey(gt'[g].prof)] # NoToken
           /\ entries[cacheKey(gt'[g].prof)].expiresAt - tnow > refreshBefore)
            => /\ gt'[g].pc = "done"
               /\ ~gt'[g].err
               /\ gt'[g].res = entries[cacheKey(gt'[g].prof)]
               /\ builds' = builds
               /\ loaded' = loaded
               /\ entries' = entries]_vars
  /\ [](\A g \in Getters :
          (gt[g].pc = "done" /\ gt[g].hit) => gt[g].built = 0)
  /\ [](\A g \in Getters :
          (/\ gt[g].n = 2 /\ gt[g].pc = "done" /\ ~gt[g].err
           /\ gt[g].prev # NoToken
           /\ gt[g].prev.expiresAt - tnow > refreshBefore
           /\ AloneOnKey(g))
            => /\ gt[g].res = gt[g].prev
               /\ builds[cacheKey(gt[g].prof)] = 1)

\* C14 witness: time has passed since the first Get minted the token, the
\* second Get of the same goroutine returned the same token, one build.
C14_Witness ==
  \E g \in Getters :
    /\ gt[g].n = 2 /\ gt[g].pc = "done" /\ gt[g].hit
    /\ gt[g].res = gt[g].prev /\ gt[g].res # NoToken
    /\ builds[cacheKey(gt[g].prof)] = 1
    /\ tnow > 0
    /\ AloneOnKey(g)

\* C15: with refreshBefore >= tokenTTL no Get call returns a cached entry:
\* every Get call that returns a token has invoked the token builder and
\* returns the token built in that call, which it has stored in the cache.
C15_AlwaysMints ==
  /\ [](refreshBefore >= TokenTTL =>
          \A g \in Getters :
            /\ ~gt[g].hit
            /\ (gt[g].pc = "done" /\ ~gt[g].err) =>
                 /\ gt[g].built = 1
                 /\ gt[g].res # NoToken
                 /\ gt[g].res # gt[g].prev)
  /\ [][refreshBefore >= TokenTTL =>
          \A g \in Getters :
            (gt'[g].pc = "done" /\ gt[g].pc # "done" /\ ~gt'[g].err)
              => /\ gt[g].pc = "put"
                 /\ entries'[cacheKey(gt[g].prof)] = gt'[g].res]_vars

\* C15 witness: refreshBefore = tokenTTL, and the second Get of a goroutine,
\* made in the tick of the first, has built and stored a second token.
C15_Witness ==
  \E g \in Getters :
    /\ refreshBefore = TokenTTL
    /\ tnow = 0
    /\ gt[g].n = 2 /\ gt[g].pc = "done" /\ ~gt[g].err
    /\ gt[g].built = 1
    /\ builds[cacheKey(gt[g].prof)] = 2
    /\ entries[cacheKey(gt[g].prof)] = gt[g].res

\* C16 (as claimed): for every (region, AWS profile) pair the configuration
\* loader is invoked at most once, over all Get calls that use the pair.
C16_LoaderInvokedOnce ==
  \A k \in ProviderKeys : loaded[k] <= 1

\* a copy direction has finished: its source closed or its Read or Write
\* failed
OneSideDown ==
  \/ \E x \in Socks : peerClosed[x]
  \/ \E d \in Dirs : copyPc[d] \in {"send", "end"}

\* C17: pipe closes no connection before a copy direction has finished;
\* once a side of a running pipe closes or fails, the direction reading
\* that side finishes, pipe closes both connections, the other direction
\* finishes too and pipe returns: eventually both connections are closed.
C17_CloseEndsPipe ==
  /\ [](\A x \in Socks : sockClosed[x] => Len(got) >= 1)
  /\ [](pipePc = "returned" =>
          /\ \A x \in Socks : sockClosed[x]
          /\ \A d \in Dirs : copyPc[d] = "end")
  /\ (pipePc # "off" /\ OneSideDown)
       ~> (pipePc = "returned" /\ \A x \in Socks : sockClosed[x])

\* C17 witness: the client's remote end closed while the backend's stayed
\* open; pipe has closed both connections and returned.
C17_Witness ==
  /\ pipePc = "returned"
  /\ peerClosed["client"] /\ ~peerClosed["backend"]
  /\ sockClosed["client"] /\ sockClosed["backend"]
  /\ copyErr["down"] = "use of closed network connection"

\* the sockets forceCloseActive has to close for a set of snapshot
\* entries: two where a backend is attached, one where none is
ForcedCount(S) ==
  2 * Cardinality({i \in S : i.backend # NoSession})
    + Cardinality({i \in S : i.backend = NoSession})

\* C18: forceCloseActive snapshots exactly the sessions tracked when it
\* takes the lock; for every snapshot entry it has handled the client
\* socket is closed and so is the backend socket where one was attached;
\* the count it returns is twice the number of snapshot entries with a
\* backend plus the number of entries without one.
C18_ForceClosesTracked ==
  /\ [](runPc = "forcing" =>
          /\ pairs \subseteq snap
          /\ forced = ForcedCount(snap \ pairs)
          /\ \A i \in snap \ pairs :
                /\ cl[i.client].closed
                /\ i.backend # NoSession => sess[i.backend].closes >= 1)
  /\ [][runPc = "snapshot" /\ runPc' = "forcing" =>
          /\ timedOut
          /\ snap' = {[client |-> e.client, backend |-> e.backend] :
                       e \in active}
          /\ pairs' = snap']_vars
  /\ [][runPc = "forcing" /\ runPc' = "grace" =>
          /\ forced = ForcedCount(snap)
          /\ \A i \in snap :
                /\ cl[i.client].closed
                /\ i.backend # NoSession => sess[i.backend].closes >= 1]_vars

\* C18 witness: the snapshot held one session with a backend attached and
\* one without; the loop is over and has counted three sockets.
C18_Witness ==
  /\ runPc = "forcing"
  /\ pairs = {}
  /\ Cardinality(snap) = 2
  /\ \E i \in snap : i.backend # NoSession
  /\ \E i \in snap : i.backend = NoSession
  /\ forced = 3

\* C19: an ERR packet is written only by a worker whose client
\* authenticated and whose Borrow failed, after its one ReadPacket
\* succeeded; the packet carries SQL state HY000 and the message "backend
\* unavailable"; the worker then closes the client and never starts a
\* pipe.  A worker on any other path (handshake failure, pipe) writes none
\* and reads no packet.
C19_ErrPacketOnlyOnBorrowFailure ==
  /\ [](\A c \in Clients :
          /\ cl[c].reads <= 1
          /\ cl[c].errPackets <= 1
          /\ cl[c].errPackets = 1 =>
                /\ cl[c].authed /\ cl[c].borrows = 1
                /\ cl[c].reads = 1 /\ ~cl[c].readErr
                /\ cl[c].backend = NoSession /\ cl[c].pipes = 0
                /\ Len(cl[c].pkt) = 10
                /\ cl[c].pkt[5] = "mysql.ERR_HEADER"
                /\ cl[c].pkt[8] = "#" /\ cl[c].pkt[9] = "HY000"
                /\ cl[c].pkt[10] = "backend unavailable"
                /\ cl[c].st \in {"closeClient", "untrack", "release", "wgdone"}
          /\ cl[c].errPackets = 0 => cl[c].pkt = NoPacket
          /\ cl[c].reads = 1 =>
                cl[c].authed /\ cl[c].backend = NoSession /\ cl[c].pipes = 0
          /\ (cl[c].reads = 1 /\ cl[c].st \in {"untrack", "release", "wgdone"})
                => cl[c].closed)
  /\ [][\A c \in Clients :
          (cl[c].st = "respond" /\ cl'[c].st # "respond") =>
             /\ cl'[c].st = "closeClient"
             /\ cl'[c].reads = 1
             /\ cl'[c].errPackets = (IF cl'[c].readErr THEN 0 ELSE 1)]_vars
  /\ [][\A c \in Clients :
          cl'[c].errPackets > cl[c].errPackets => cl[c].st = "respond"]_vars

\* C19 witness: one worker failed to borrow, read the client's packet and
\* answered with the ERR packet; the other's handshake failed and it wrote
\* nothing; both have closed their client.
C19_Witness ==
  \E c, d \in Clients :
    /\ cl[c].st = "untrack" /\ cl[c].errPackets = 1 /\ cl[c].closed
    /\ cl[d].st = "untrack" /\ ~cl[d].authed /\ cl[d].errPackets = 0
    /\ cl[d].closed

\* C20: when the process has exited and the Run of some instance had
\* returned an error, the exit code is not zero.
C20_FailureExitsNonZero ==
  (mainPc = "exited" /\ \E i \in Instances : inst[i].ret = "err")
    => exitCode # 0

\* the start-up of some selected profile has failed: NewBackendFactory
\* returned an error (the only exit with code 1 that no Run error
\* precedes) or net.Listen did
StartupFailed ==
  \/ \E i \in Instances : inst[i].ret = "err"
  \/ mainPc = "exited" /\ exitCode = 1

\* C21: when the start-up of a selected profile has failed, no selected
\* profile has started prewarming its pool, bound its listener or
\* accepted a client.
C21_NoPartialLaunch ==
  StartupFailed =>
    \A i \in Instances :
       ~inst[i].prewarm /\ ~inst[i].bound /\ ~inst[i].accepted

\* C22: once the supervisor's context is cancelled, every refill factory
\* call in flight runs under a cancelled refill context.
C22_RefillScopeFollowsSupervisor ==
  (ctxDone /\ fillCalling > 0) => RefillCtxDone

\* C23: the first Close sets p.closed and cancels the refill scope, its
\* drain loop closes every session it receives and Close returns only on
\* an empty FIFO; a session leaves the FIFO only closed or handed to a
\* borrower.  A Close on a closed pool returns at once: it changes nothing
\* of the pool and closes no session.
C23_CloseIdempotent ==
  /\ [](runPc \in {"draining", "returned", "skipped"}
          => closed /\ RefillCtxDone)
  /\ [][(runPc = "closing" /\ runPc' # "closing") =>
          IF closed
            THEN runPc' = "skipped" /\ UNCHANGED poolVars
            ELSE runPc' = "draining" /\ closed' /\ RefillCtxDone'
                 /\ conns' = conns /\ sess' = sess]_vars
  /\ [][(runPc = "draining" /\ runPc' = "returned") => conns = << >>]_vars
  /\ [][(conns # << >> /\ conns' = Tail(conns)) =>
          \/ sess'[Head(conns)].closes = sess[Head(conns)].closes + 1
          \/ sess'[Head(conns)].handed = sess[Head(conns)].handed + 1]_vars
  /\ [](\A s \in Sessions : sess[s].pool => sess[s].closes = 1)

\* C23 witness: Close drained and closed two pooled sessions, and a second
\* Close has returned from its closed-check; both sessions are closed once.
C23_Witness ==
  /\ runPc = "skipped"
  /\ closed
  /\ conns = << >>
  /\ \E s, t \in Sessions :
        /\ s # t
        /\ sess[s].pool /\ sess[s].closes = 1 /\ sess[s].handed = 0
        /\ sess[t].pool /\ sess[t].closes = 1 /\ sess[t].handed = 0

\* C24: whichever return of Run is taken (the net.Listen error, the return
\* from the semaphore wait, <-done, the second select after the timeout),
\* Close runs next; Run has returned only with the pool marked closed, its
\* refill scope cancelled and the drain loop ended on an empty FIFO.
C24_RunClosesPool ==
  /\ [](runPc = "returned" => closed /\ RefillCtxDone)
  /\ [][(runErr = "none" /\ runErr' # "none") =>
          /\ runPc \in {"new", "sem", "wait", "grace"}
          /\ runPc' = "closing"]_vars
  /\ [][(runPc # "returned" /\ runPc' = "returned") =>
          runPc = "draining" /\ closed /\ conns = << >>]_vars
  /\ [](runPc \in {"closing", "draining", "returned"} <=> runErr # "none")

\* C24 witness: Run returned from the semaphore wait on cancellation; the
\* connection it held is closed, and Close has closed a pooled session.
C24_Witness ==
  /\ runPc = "returned"
  /\ \E c \in Clients : cl[c].st = "rejected"
  /\ closed
  /\ \E s \in Sessions : sess[s].pool /\ sess[s].closes = 1

\* C25: the first signal cancels the shared context and leaves the
\* process running; the process exits with code 130 only in the step in
\* which signalContext's goroutine receives a second signal, the first
\* having cancelled the context.
C25_TwoSignalsToForceExit ==
  /\ [][(sigPc = "first" /\ sigPc' = "second") =>
          /\ ctxDone'
          /\ mainPc' = mainPc /\ mainPc # "exited"
          /\ exitCode' = NoExit]_vars
  /\ [][(exitCode # 130 /\ exitCode' = 130) =>
          sigPc = "second" /\ ctxDone]_vars
  /\ [](exitCode = 130 => sigPc = "second" /\ ctxDone)
  /\ [](sigPc = "first" => exitCode # 130)

\* C25 witness: a first signal started the shutdown of a serving instance
\* and a second one ended the process with code 130 before Run returned.
C25_Witness ==
  /\ mainPc = "exited"
  /\ exitCode = 130
  /\ ctxDone
  /\ \E i \in Instances : inst[i].pc = "run" /\ inst[i].accepted

\* the listen addresses whose host is an IP loopback address
LoopbackListenAddrs ==
  {<<h, ":", "3307">> : h \in {"127.0.0.1", "127.8.0.9"}}
  \cup {<<"[", h, "]", ":", "3307">> : h \in {"::1", "::ffff:127.0.0.1"}}

\* C26: ValidateRuntime fails for every profile whose listen address is
\* not host:port with an IP loopback host, and main launches an instance
\* only for a profile whose listen address is one.
C26_NonLoopbackRejected ==
  /\ [][(cfgPc = "runtime" /\ cfgPc' # "runtime"
           /\ cfgProf.ListenAddr \notin LoopbackListenAddrs)
          => (cfgPc' = "rejected" /\ cfgErr' # "nil" /\ cfgSem' = 0)]_vars
  /\ [](\A p \in ProfileInputs :
          p.ListenAddr \notin LoopbackListenAddrs
            => ValidateRuntime(p, cfgAllow) # "nil")
  /\ [](cfgPc \in {"launch", "running"}
          => cfgProf.ListenAddr \in LoopbackListenAddrs)

\* C26 witness: the profile listening on 0.0.0.0:3307, valid otherwise,
\* was rejected by ValidateRuntime as not loopback.
C26_Witness ==
  /\ cfgPc = "rejected"
  /\ cfgErr = "listen_addr is not loopback"
  /\ cfgProf.ListenAddr = <<"0.0.0.0", ":", "3307">>
  /\ cfgProf.ProxyPassword = "secret"
  /\ cfgProf.CABundle \in ExistingFiles
  /\ cfgProf.MaxConns = defaultMaxConns
  /\ cfgSem = 0

\* C27: validateProfile fails for every max_conns above 200 or below 1,
\* main stops on a --max-conns above 200, and the semaphore of a launched
\* instance has a capacity between 1 and 200.
C27_SemCapacityWithinHardCap ==
  /\ [](\A p \in ProfileInputs :
          (p.MaxConns > 200 \/ p.MaxConns < 1) => validateProfile(p) # "nil")
  /\ [][(cfgPc = "flags" /\ cfgPc' # "flags" /\ cfgFlag > 200)
          => (cfgPc' = "rejected" /\ cfgSem' = 0)]_vars
  /\ [][(cfgPc = "load" /\ cfgPc' = "runtime")
          => cfgProf'.MaxConns \in 1..200]_vars
  /\ [](cfgPc = "running" => cfgSem \in 1..200)
  /\ [](cfgPc # "running" => cfgSem = 0)

\* C27 witness: an instance launched with the largest override allowed;
\* its semaphore holds 200 slots although the profile asks for 1.
C27_Witness ==
  /\ cfgPc = "running"
  /\ cfgFlag = 200
  /\ cfgProf.MaxConns = 1
  /\ cfgSem = 200

\* the four messages of a closed connection
ClosePhrases ==
  {<<"broken", "pipe">>,
   <<"connection", "reset", "by", "peer">>,
   <<"use", "of", "closed", "network", "connection">>,
   <<"read/write", "on", "closed", "pipe">>}

\* C28: isConnCloseErr returns true exactly when the error is EOF, is the
\* network-closed sentinel, or has a message that contains one of the four
\* phrases; it returns false for nil and for every other error, among them
\* "unexpected protocol failure" and "unexpected EOF".
C28_CloseErrClassification ==
  /\ [](errOut # "none" =>
          (errOut = "true" <=>
             /\ errIn # NilErr
             /\ \/ errIn.wraps \in {"io.EOF", "net.ErrClosed"}
                \/ \E ph \in ClosePhrases : Contains(ErrorText(errIn), ph)))
  /\ []((errOut # "none" /\ errIn = NilErr) => errOut = "false")
  /\ []((errOut # "none"
          /\ errIn \in {[wraps |-> "io.EOF", chunks |-> << >>],
                        [wraps |-> "net.ErrClosed", chunks |-> << >>]})
         => errOut = "true")
  /\ []((errOut # "none"
          /\ errIn \in
               {[wraps |-> "none",
                 chunks |-> << <<"unexpected", "protocol", "failure">> >>],
                [wraps |-> "io.ErrUnexpectedEOF", chunks |-> << >>],
                [wraps |-> "none", chunks |-> << >>],
                [wraps |-> "none", chunks |-> << <<"pipe">>, <<"broken">> >>]})
         => errOut = "false")

\* C28 witness: isConnCloseErr returned true for "write: broken pipe".
C28_Witness ==
  /\ errIn = [wraps |-> "none",
              chunks |-> << <<"write:">>, <<"broken", "pipe">> >>]
  /\ errOut = "true"

\* C29: once Close has returned (and Run with it), the FIFO is empty.
C29_ClosedPoolStaysEmpty ==
  runPc = "returned" => conns = << >>

\* C30: a session a refill task got from the factory leaves the task
\* either appended to the FIFO (which had room) or closed by the pool, in
\* that same step; the FIFO never holds more than its capacity; a refill
\* task whose factory call fails ends without touching FIFO or sessions
\* and without starting another refill.
C30_RefillEnqueuesOrCloses ==
  /\ [][\A s \in Sessions :
          (s \in fillHolding /\ s \notin fillHolding') =>
             \/ /\ Len(conns) < poolCap
                /\ conns' = Append(conns, s)
                /\ sess'[s].closes = 0
             \/ /\ Len(conns) = poolCap
                /\ conns' = conns
                /\ sess'[s].closes = 1 /\ sess'[s].pool]_vars
  /\ [](Len(conns) <= poolCap)
  /\ [](\A s \in fillHolding : sess[s].closes = 0 /\ sess[s].handed = 0)
  /\ [][(fillCalling' = fillCalling - 1 /\ fillHolding' = fillHolding) =>
          /\ conns' = conns /\ sess' = sess
          /\ fillStart' = fillStart /\ nextSess' = nextSess]_vars

\* C30 witness: the pool is open and full, no Borrow has discarded
\* anything, and a refill task has closed the session it could not
\* enqueue.
C30_Witness ==
  /\ runPc = "new"
  /\ ~closed
  /\ Len(conns) = poolCap
  /\ fillHolding = {}
  /\ \A c \in Clients : cl[c].st = "idle" /\ cl[c].borrows = 0
  /\ \E s \in Sessions :
        sess[s].pool /\ sess[s].closes = 1 /\ sess[s].handed = 0

\* the idle sessions and the refill tasks under way
PoolLoad == Len(conns) + fillStart + fillCalling + Cardinality(fillHolding)

C32_StaleNeverReturned ==
  /\ [][\A c \in Clients :
          (/\ cl[c].st = "borrow" /\ cl'[c].st = "attach"
           /\ conns # << >> /\ cl'[c].backend = Head(conns))
            => /\ ~(sess[Head(conns)].age > MaxLife)
               /\ sess'[Head(conns)].closes = 0
               /\ ~sess'[Head(conns)].pool]_vars
  /\ [][\A c \in Clients :
          (/\ cl[c].st = "borrow"
           /\ \/ cl'[c].aged = cl[c].aged + 1
              \/ cl'[c].stale = cl[c].stale + 1)
            => /\ conns # << >>
               /\ conns' = Tail(conns)
               /\ sess'[Head(conns)].closes = sess[Head(conns)].closes + 1
               /\ sess'[Head(conns)].pool
               /\ sess'[Head(conns)].handed = 0
               /\ fillStart' = fillStart + 1
               /\ cl'[c].st = "borrow"
               /\ cl'[c].backend = NoSession]_vars
  /\ [](\A s \in Sessions : sess[s].pool => sess[s].handed = 0)

\* C32 witness: Borrow met a session whose Ping failed, closed it, and
\* returned the next pooled session; two refill tasks were started, one for
\* each session taken out of the FIFO.
C32_Witness ==
  \E c \in Clients, s \in Sessions :
    /\ cl[c].st = "attach"
    /\ cl[c].stale = 1 /\ cl[c].aged = 0
    /\ cl[c].refills = 2 /\ cl[c].factoryCalls = 0
    /\ s # cl[c].backend
    /\ sess[s].pool /\ sess[s].closes = 1 /\ sess[s].handed = 0
    /\ sess[cl[c].backend].closes = 0

\* C33: a Borrow call that finds the FIFO empty and its context not
\* cancelled calls the factory once and returns: with the session the
\* factory made, untouched and handed to this caller only, or with no
\* session when the factory failed.  It starts no refill task, leaves the
\* FIFO alone and does not call the factory again.
C33_SlowPathCallsFactoryOnce ==
  /\ [][\A c \in Clients :
          (/\ cl[c].st = "borrow" /\ conns = << >> /\ ~ctxDone
           /\ cl'[c] # cl[c])
            => /\ cl'[c].factoryCalls = cl[c].factoryCalls + 1
               /\ conns' = conns
               /\ fillStart' = fillStart
               /\ \/ /\ cl'[c].st = "attach"
                     /\ cl'[c].backend = nextSess
                     /\ nextSess' = nextSess + 1
                     /\ sess'[nextSess].closes = 0
                     /\ sess'[nextSess].handed = 1
                  \/ /\ cl'[c].st = "respond"
                     /\ cl'[c].backend = NoSession
                     /\ nextSess' = nextSess
                     /\ sess' = sess]_vars
  /\ [](\A c \in Clients :
          /\ cl[c].factoryCalls <= 1
          /\ cl[c].factoryCalls = 1 => cl[c].st # "borrow")

\* C33 witness: a call made with a live context found the FIFO empty, the
\* factory failed, and the call has returned after that one attempt.
C33_Witness ==
  \E c \in Clients :
    /\ cl[c].st = "respond"
    /\ ~cl[c].ctxAtCall /\ ~ctxDone
    /\ cl[c].factoryCalls = 1
    /\ cl[c].refills = 0
    /\ cl[c].backend = NoSession
    /\ conns = << >>

\* C34: when pipe has returned, its first count is the bytes copied from
\* client to backend and its second count the bytes copied from backend to
\* client, whichever direction finished first.
C34_CountsFollowDirections ==
  pipePc = "returned" =>
    /\ pipeUp = copyN["up"]
    /\ pipeDown = copyN["down"]

C36_FailureSurfacedOnce ==
  /\ [](\A g \in Getters :
          /\ gt[g].loads <= 1 /\ gt[g].tries <= 1
          /\ gt[g].err =>
               /\ gt[g].pc = "done"
               /\ gt[g].res = NoToken
               /\ \/ /\ gt[g].stage = "load aws config"
                     /\ gt[g].loads = 1 /\ gt[g].tries = 0
                  \/ /\ gt[g].stage = "build auth token"
                     /\ gt[g].tries = 1)
  /\ [][\A g \in Getters :
          (~gt[g].err /\ gt'[g].err) =>
             /\ entries' = entries
             /\ awsProviders' = awsProviders
             /\ gt'[g].n = gt[g].n]_vars

\* C36 witness: the loader failed for a pair that had no provider; Get has
\* returned the error and the pair still has no provider.
C36_Witness ==
  \E g \in Getters :
    /\ gt[g].pc = "done" /\ gt[g].err
    /\ gt[g].stage = "load aws config"
    /\ gt[g].loads = 1
    /\ providerKey(gt[g].prof) \notin awsProviders
    /\ entries[cacheKey(gt[g].prof)] = NoToken

\* C37 (as claimed): no step replaces the entry stored for a key by one
\* that expires earlier: the ExpiresAt stored for a key never decreases.
C37_StoredExpiryNeverDecreases ==
  [][\A k \in CacheKeys :
       entries'[k].expiresAt >= entries[k].expiresAt]_vars

\* C38 (as claimed): the token a Get call returns was built for the key
\* tuple of the profile the call was made for, and the entry a profile
\* finds in the cache was built for that profile's tuple: profiles with
\* different tuples share no entry.
C38_TokenOfOwnTuple ==
  /\ \A g \in Getters :
       (gt[g].pc = "done" /\ ~gt[g].err /\ gt[g].n > 0) =>
          gt[g].res.minted = KeyTuple(gt[g].prof)
  /\ \A p \in Profiles :
       entries[cacheKey(p)] # NoToken =>
          entries[cacheKey(p)].minted = KeyTuple(p)

\* the client connections that have an entry in p.active
Tracked == {e.client : e \in active}

\* C39: the entries of p.active are never more than the slots held in
\* p.sem, which are never more than max-conns; a worker adds its entry
\* while it holds the slot acquired for it, and when a slot is released
\* the worker releasing it has closed its client socket and removed its
\* entry.
C39_TrackedWithinSlots ==
  /\ [](Cardinality(active) <= sem /\ sem <= maxConns)
  /\ [][\A c \in Clients :
          (c \in Tracked' /\ c \notin Tracked) =>
             cl[c].acq = 1 /\ cl[c].rel = 0]_vars
  /\ [][sem' < sem =>
          \E c \in Clients :
            /\ cl'[c].rel = cl[c].rel + 1
            /\ cl[c].closed
            /\ c \notin Tracked]_vars

\* C39 witness: with max-conns 1, a worker has closed its client, removed
\* its entry, released its slot and ended; the next worker holds the slot
\* and has its entry in p.active.
C39_Witness ==
  /\ maxConns = 1 /\ sem = 1
  /\ Cardinality(active) = 1
  /\ \E c, d \in Clients :
        /\ cl[c].st = "done" /\ cl[c].closed
        /\ d \in Tracked /\ cl[d].acq = 1

\* ------------------------------------------------- Run after cancellation

\* the steps of the goroutine that calls pool.Start and then Run, with the
\* deferred pool.Close
RunStep ==
  \/ Start
  \/ ListenOK
  \/ ListenFail
  \/ AcceptBreak
  \/ SemAcquire
  \/ SemCancel
  \/ Dispatch
  \/ WaitDone
  \/ WaitTimeout
  \/ ForceSnapshot
  \/ ForceCloseNext
  \/ ForceDone
  \/ GraceDone
  \/ GraceTimeout
  \/ CloseMark
  \/ CloseDrainOne
  \/ CloseDrainEnd

\* Run's goroutine and the watcher that closes the listener are scheduled,
\* and the two timers of the final selects fire; nothing is assumed of the
\* workers or of the clients.
FairRun ==
  /\ WF_vars(RunStep)
  /\ WF_vars(CloseListener)

SpecShutdown == Init /\ [][Next]_vars /\ FairRun

\* Under FairRun a cancelled Run returns in every execution: the closed
\* listener breaks the accept loop, the final select is bounded by
\* shutdownTimeout, the second by two seconds, and the drain loop of
\* pool.Close by the sessions made.
RunEventuallyReturns == ctxDone ~> (runPc = "returned")

\* Run is past the branch of time.After(p.shutdownTimeout)
ForcePath == timedOut \/ runPc \in {"snapshot", "forcing", "grace"}

\* C40 (as claimed): Run returns a non-nil error only from the failed
\* net.Listen and nil from every other return; and a Run whose accept loop
\* exits with no worker active (here: no worker was ever dispatched) returns
\* without taking the force-close path.
C40_NilReturnWithoutForceWhenIdle ==
  /\ [][runErr' = "err" => runPc = "new" \/ runErr = "err"]_vars
  /\ [](runPc = "returned" /\ runErr # "err" => runErr = "nil")
  /\ [](nextConnID = 0 /\ wg = 0 => ~ForcePath)

\* In a proxy run a refill task that holds a new session finds room.
FillAlwaysHasRoom ==
  Len(conns) + Cardinality(fillHolding) + fillCalling + fillStart <= poolCap

TypeOK ==
  /\ ctxDone \in BOOLEAN
  /\ nextSess \in 1..(sessLimit + 1)
  /\ sem \in 0..maxConns
  /\ wg \in 0..MaxClients
  /\ Len(conns) <= poolCap

====
